---- MODULE Spec2Model ----
(***************************************************************************)
(* State-machine model of the grid state managers of                       *)
(* keithbloom/ag-grid-state-management:                                    *)
(*   useGridStateManager          (basic hook)                             *)
(*   useEnhancedGridStateManager  (enhanced hook: parsers and validators)  *)
(*   useSimplifiedGridManager     (simplified hook)                        *)
(* One behaviour follows one hook instance (variable hook).  A step is one *)
(* run-to-completion JavaScript task: a call of the hook's API, or the     *)
(* continuation that runs when a handler's promise settles.                *)
(***************************************************************************)
EXTENDS Integers, Sequences, FiniteSets, TLC

(***************************************************************************)
(* Bounds of the model.                                                    *)
(***************************************************************************)
MaxCalls == 3
MaxEngineCalls == 4
MaxTasks == 3

(***************************************************************************)
(* JavaScript values: numbers, strings, null and undefined.                *)
(***************************************************************************)
Num(n) == [t |-> "number", n |-> n, s |-> ""]
Str(s) == [t |-> "string", n |-> 0, s |-> s]
Null == [t |-> "null", n |-> 0, s |-> ""]
Undefined == [t |-> "undefined", n |-> 0, s |-> ""]
Bool(b) == [t |-> "boolean", n |-> IF b THEN 1 ELSE 0, s |-> ""]

\* A result of type string | null (validators) or an optional message.
NoMessage == [null |-> TRUE, msg |-> ""]
Message(m) == [null |-> FALSE, msg |-> m]
\* JavaScript truthiness of a string | null | undefined.
Truthy(e) == ~e.null /\ e.msg # ""

(***************************************************************************)
(* Map<string, X> and plain objects as functions with a finite domain.     *)
(***************************************************************************)
EmptyMap == [k \in {} |-> Null]
MapSet(m, k, v) == [x \in DOMAIN m \cup {k} |-> IF x = k THEN v ELSE m[x]]
MapDelete(m, k) == [x \in DOMAIN m \ {k} |-> m[x]]
\* { ...a, ...b }
Spread(a, b) == [x \in DOMAIN a \cup DOMAIN b |-> IF x \in DOMAIN b THEN b[x] ELSE a[x]]
\* obj[key], undefined when the key is absent
Get(obj, k) == IF k \in DOMAIN obj THEN obj[k] ELSE Undefined

\* String(value) on the values of the model.
StringOf(v) ==
  CASE v.t = "string" -> v.s
    [] v.t = "null" -> "null"
    [] v.t = "undefined" -> "undefined"
    [] v.t = "number" /\ v.n = 10 -> "10"
    [] v.t = "number" /\ v.n = 20 -> "20"
    [] v.t = "number" /\ v.n = 40 -> "40"
    [] v.t = "number" /\ v.n = -5 -> "-5"
    [] OTHER -> "NaN"

\* parseFloat(text) on the texts of the model; nan marks NaN.
ParseFloat(text) ==
  CASE text = "10" -> [nan |-> FALSE, n |-> 10]
    [] text = "20" -> [nan |-> FALSE, n |-> 20]
    [] text = "40" -> [nan |-> FALSE, n |-> 40]
    [] text = "-5" -> [nan |-> FALSE, n |-> -5]
    [] OTHER -> [nan |-> TRUE, n |-> 0]

(***************************************************************************)
(* Inputs: the rows, modes and registrations the environment may supply.   *)
(***************************************************************************)
Fields == {"price", "total"}
\* the grid shows at most two rows: params.data is row 1 or row 2 of the data
Rows == {1, 2}
\* the two rows of the data are alike: where one cell edit at a time is
\* followed, the edited row is the first (the engine specifications edit both)
EditedRows == {1}
Row(id, price, total) == [k \in {"id", "price", "total"} |->
  IF k = "id" THEN Str(id) ELSE IF k = "price" THEN price ELSE total]
Row1 == Row("1", Num(10), Num(10))
Row2 == Row("2", Num(10), Num(10))
DataSets == {<<>>, <<Row1, Row2>>}
DefaultModes == {"default", "editing"}
ModeIds == {"editing", "readonly"}
RawInputs == {Str("abc"), Str("20"), Str("-5")}
\* params.newValue of an edit: a raw text, or the number the cell already holds
EditValues == RawInputs \cup {Num(10)}
Hooks == {"basic", "enhanced", "simplified"}
NoSource == "<undefined>"

ModeCatalogue == {
  [id |-> "editing", name |-> "Editing Mode", columns |-> <<"price", "total">>,
   defaultColumnProps |-> [editable |-> Bool(TRUE), cellClass |-> Str("mode")]],
  [id |-> "editing", name |-> "Editing Mode 2", columns |-> <<"price">>,
   defaultColumnProps |-> [sortable |-> Bool(TRUE)]],
  [id |-> "readonly", name |-> "Read-Only Mode", columns |-> <<"price">>,
   defaultColumnProps |-> [editable |-> Bool(FALSE)]] }

\* AsyncColumnHandler objects; the handler function itself is opaque and its
\* outcome is chosen when its promise settles.
HandlerCatalogue == {
  [columnId |-> "price", hasModes |-> TRUE, modes |-> {"editing"},
   dependencies |-> <<"total">>],
  [columnId |-> "total", hasModes |-> FALSE, modes |-> {},
   dependencies |-> <<"price">>],
  [columnId |-> "total", hasModes |-> TRUE, modes |-> {"editing"},
   dependencies |-> <<>>] }

\* three handlers whose dependencies form the cycle price -> total -> tax ->
\* price; tax is a column that only handlers write
CycleFields == Fields \cup {"tax"}
CycleCatalogue == {
  [columnId |-> "price", hasModes |-> FALSE, modes |-> {},
   dependencies |-> <<"total">>],
  [columnId |-> "total", hasModes |-> FALSE, modes |-> {},
   dependencies |-> <<"tax">>],
  [columnId |-> "tax", hasModes |-> FALSE, modes |-> {},
   dependencies |-> <<"price">>] }

\* handlers of which one declares two dependencies (the example's price
\* handler declares ['total', 'tax']) and one of the dependents has a
\* dependent of its own
FanOutCatalogue == {
  [columnId |-> "price", hasModes |-> FALSE, modes |-> {},
   dependencies |-> <<"total", "tax">>],
  [columnId |-> "total", hasModes |-> FALSE, modes |-> {},
   dependencies |-> <<"tax">>],
  [columnId |-> "tax", hasModes |-> FALSE, modes |-> {},
   dependencies |-> <<>>] }

\* ColumnConfig objects: the properties the engine reads, the other properties
\* the object has itself (props), and its overrides per mode.
ConfigCatalogue == {
  [field |-> "price", hasModes |-> FALSE, modes |-> {},
   defaultParser |-> "number", defaultValidator |-> "price",
   props |-> [headerName |-> Str("Price"), cellClass |-> Str("base")],
   modeSpecificProps |->
     [editing |-> [cellClass |-> Str("override"), editable |-> Bool(FALSE)]]],
  [field |-> "total", hasModes |-> TRUE, modes |-> {"editing"},
   defaultParser |-> "number", defaultValidator |-> "nonNegativeNumber",
   props |-> [headerName |-> Str("Total")],
   modeSpecificProps |-> [k \in {} |-> Null]] }

\* ColumnParser objects: fn names the registered parser function.
ParserCatalogue == {
  [columnId |-> "price", hasModes |-> TRUE, modes |-> {"editing"}, fn |-> "strictNumber"] }

\* ColumnValidator objects: fn names the registered validator function.
ValidatorCatalogue == {
  [columnId |-> "price", hasModes |-> TRUE, modes |-> {"editing"}, fn |-> "examplePrice"],
  [columnId |-> "price", hasModes |-> FALSE, modes |-> {}, fn |-> "blankOnNegative"],
  [columnId |-> "total", hasModes |-> FALSE, modes |-> {}, fn |-> "throwsOnText"] }

\* a partial update that names the id field: Partial<GridRowData> has it
IdUpdate == [k \in {"id"} |-> Str("2")]

\* What a handler's promise may settle with.
HandlerUpdates(h) ==
  {EmptyMap, IdUpdate}
    \cup {[k \in {h.dependencies[i]} |-> Num(40)] : i \in DOMAIN h.dependencies}
    \cup {[k \in {h.dependencies[i] : i \in DOMAIN h.dependencies} |-> Num(40)]}
Rejections == {
  [isError |-> TRUE, message |-> "boom"],
  [isError |-> TRUE, message |-> ""],
  [isError |-> FALSE, message |-> "boom"] }

(***************************************************************************)
(* State.                                                                  *)
(***************************************************************************)
VARIABLES
  hook,            \* which hook this instance is
  state,           \* the reducer state (useReducer / useState of the hook)
  first,           \* the state of the first render (captured by the basic hook's closures)
  handlersRef,     \* Map columnId -> AsyncColumnHandler
  parsersRef,      \* Map columnId -> ColumnParser
  validatorsRef,   \* Map columnId -> ColumnValidator
  columnConfigsRef,\* Map field -> ColumnConfig
  processingRef,   \* Set of processing keys
  tasks,           \* the processAsyncUpdate calls that are suspended at an await
  calls,           \* number of API calls the environment may still make
  uncaught         \* TRUE once a call has thrown an exception to its caller

vars == <<hook, state, first, handlersRef, parsersRef, validatorsRef,
          columnConfigsRef, processingRef, tasks, calls, uncaught>>

(***************************************************************************)
(* gridReducer, one operator per case.                                     *)
(***************************************************************************)
SET_DATA(st, payload) ==
  [st EXCEPT !.data = payload, !.loading = {}, !.errors = EmptyMap,
             !.cellErrors = EmptyMap]

\* the basic hook's reducer has no cellErrors
BASIC_SET_DATA(st, payload) ==
  [st EXCEPT !.data = payload, !.loading = {}, !.errors = EmptyMap]

\* a merge in which the value the record already holds wins
UPDATE_ROW_KeepingHeldValues(st, payload) ==
  [st EXCEPT !.data = [i \in DOMAIN st.data |->
     IF st.data[i]["id"] = payload.id
       THEN Spread(payload.updates, st.data[i])
       ELSE st.data[i]]]

UPDATE_ROW(st, payload) ==
  [st EXCEPT !.data = [i \in DOMAIN st.data |->
     IF st.data[i]["id"] = payload.id
       THEN Spread(st.data[i], payload.updates)
       ELSE st.data[i]]]

SET_LOADING(st, payload) ==
  [st EXCEPT !.loading = IF payload.loading
                           THEN st.loading \cup {payload.id}
                           ELSE st.loading \ {payload.id}]

\* a record-level error action that also drops the record's cell errors
SET_ERROR_DroppingCellErrors(st, payload) ==
  [st EXCEPT !.errors = IF Truthy(payload.error)
                          THEN MapSet(st.errors, payload.id, payload.error.msg)
                          ELSE MapDelete(st.errors, payload.id),
             !.cellErrors = EmptyMap]

SET_ERROR(st, payload) ==
  [st EXCEPT !.errors = IF Truthy(payload.error)
                          THEN MapSet(st.errors, payload.id, payload.error.msg)
                          ELSE MapDelete(st.errors, payload.id)]

\* `${rowId}-${columnId}`
TemplateKey(rowId, columnId) == StringOf(rowId) \o "-" \o columnId

SET_CELL_ERROR(st, payload) ==
  LET cellKey == TemplateKey(payload.rowId, payload.columnId)
  IN  [st EXCEPT !.cellErrors = IF Truthy(payload.error)
                                  THEN MapSet(st.cellErrors, cellKey, payload.error.msg)
                                  ELSE MapDelete(st.cellErrors, cellKey)]

\* SET_MODE as the basic reducer has it: the cell errors survive the switch
SET_MODE_KeepingCellErrors(st, payload) ==
  [st EXCEPT !.currentMode = payload, !.loading = {}, !.errors = EmptyMap]

\* a SET_MODE that ignores an id no registered mode has
SET_MODE_OfRegisteredModeOnly(st, payload) ==
  IF \E k \in DOMAIN st.availableModes : st.availableModes[k].id = payload
    THEN [st EXCEPT !.currentMode = payload, !.loading = {}, !.errors = EmptyMap,
                    !.cellErrors = EmptyMap]
    ELSE st

SET_MODE(st, payload) ==
  [st EXCEPT !.currentMode = payload, !.loading = {}, !.errors = EmptyMap,
             !.cellErrors = EmptyMap]

BASIC_SET_MODE(st, payload) ==
  [st EXCEPT !.currentMode = payload, !.loading = {}, !.errors = EmptyMap]

\* a REGISTER_MODE that appends without removing the entry of the same id
REGISTER_MODE_Appending(st, payload) ==
  [st EXCEPT !.availableModes = Append(st.availableModes, payload)]

REGISTER_MODE(st, payload) ==
  LET existingModes == SelectSeq(st.availableModes, LAMBDA mode : mode.id # payload.id)
  IN  [st EXCEPT !.availableModes = Append(existingModes, payload)]

gridReducer(st, action) ==
  CASE action.type = "SET_DATA" -> SET_DATA(st, action.payload)
    [] action.type = "UPDATE_ROW" -> UPDATE_ROW(st, action.payload)
    [] action.type = "SET_LOADING" -> SET_LOADING(st, action.payload)
    [] action.type = "SET_ERROR" -> SET_ERROR(st, action.payload)
    [] action.type = "SET_CELL_ERROR" -> SET_CELL_ERROR(st, action.payload)
    [] action.type = "SET_MODE" -> SET_MODE(st, action.payload)
    [] action.type = "REGISTER_MODE" -> REGISTER_MODE(st, action.payload)
    [] OTHER -> st

\* the basic hook's reducer (the first gridReducer of the file)
basicGridReducer(st, action) ==
  CASE action.type = "SET_DATA" -> BASIC_SET_DATA(st, action.payload)
    [] action.type = "UPDATE_ROW" -> UPDATE_ROW(st, action.payload)
    [] action.type = "SET_LOADING" -> SET_LOADING(st, action.payload)
    [] action.type = "SET_ERROR" -> SET_ERROR(st, action.payload)
    [] action.type = "SET_MODE" -> BASIC_SET_MODE(st, action.payload)
    [] action.type = "REGISTER_MODE" -> REGISTER_MODE(st, action.payload)
    [] OTHER -> st

(***************************************************************************)
(* Parsers and validators.                                                 *)
(***************************************************************************)
\* One invocation of a registered function, as recorded in a context's trace.
Event(fn, rowId, columnId, value, row, source, mode) ==
  [fn |-> fn, rowId |-> rowId, columnId |-> columnId, value |-> value,
   row |-> row, source |-> source, mode |-> mode]
\* the same, for the invocation of a handler object
HandlerEvent(handler, rowId, columnId, value, row, source, mode) ==
  [fn |-> "handler", rowId |-> rowId, columnId |-> columnId, value |-> value,
   row |-> row, source |-> source, mode |-> mode, handler |-> handler]

Returned(v) == [threw |-> FALSE, isError |-> FALSE, message |-> "", value |-> v]
Thrown(isError, message) ==
  [threw |-> TRUE, isError |-> isError, message |-> message, value |-> Undefined]

\* defaultParsersValidators.parsers[name](value)
DefaultParser(name, value) ==
  CASE name = "string" ->
         IF value.t \in {"null", "undefined"} THEN Str("") ELSE Str(StringOf(value))
    [] name \in {"number", "currency"} ->
         IF value.t \in {"null", "undefined"} \/ value = Str("")
           THEN Null
           ELSE LET parsed == ParseFloat(StringOf(value))
                IN  IF parsed.nan THEN Null ELSE Num(parsed.n)

\* the names defaultParsersValidators.parsers defines, as far as the model uses them
DefaultParserNames == {"string", "number", "currency"}

\* defaultParsersValidators.validators[name](value, rowData)
DefaultValidator(name, value, rowData) ==
  CASE name = "required" ->
         IF value.t \in {"null", "undefined"} \/ value = Str("")
           THEN Message("This field is required") ELSE NoMessage
    [] name = "nonNegativeNumber" ->
         IF value.t \in {"null", "undefined"} THEN NoMessage
         ELSE IF value.t # "number" THEN Message("Must be a valid number")
         ELSE IF value.n < 0 THEN Message("Must be zero or positive")
         ELSE NoMessage
    [] name = "price" ->
         IF value.t \in {"null", "undefined"} THEN NoMessage
         ELSE IF value.t # "number" THEN Message("Must be a valid price")
         ELSE IF value.n < 0 THEN Message("Price cannot be negative")
         ELSE IF value.n > 1000000 THEN Message("Price seems unreasonably high")
         ELSE NoMessage

DefaultValidatorNames == {"required", "nonNegativeNumber", "price"}

\* A registered (custom) parser function: it returns a value or throws.
CustomParser(fn, value, rowData) ==
  CASE fn = "strictNumber" ->
         LET parsed == ParseFloat(StringOf(value))
         IN  IF parsed.nan THEN Thrown(TRUE, "Not a number") ELSE Returned(Num(parsed.n))

\* A registered (custom) validator function: string | null.
CustomValidator(fn, value, rowData) ==
  CASE fn = "examplePrice" ->
         IF value.t \in {"null", "undefined"} THEN Message("Price is required")
         ELSE IF value.t # "number" THEN Message("Must be a valid price")
         ELSE IF value.n <= 0 THEN Message("Price must be greater than zero")
         ELSE IF value.n > 50000 THEN Message("Price seems unreasonably high (max $50,000)")
         ELSE NoMessage
    [] fn = "blankOnNegative" ->
         IF value.t = "number" /\ value.n < 0 THEN Message("") ELSE NoMessage
    [] fn = "throwsOnText" -> NoMessage

\* whether the registered validator function throws instead of returning, as
\* value => value.toFixed(2) ... does on a value that is not a number
CustomValidatorThrows(fn, value, rowData) ==
  fn = "throwsOnText" /\ value.t # "number"

\* a mode filter that lets every entry through
IsActiveInEveryMode(entry, currentMode) == TRUE

\* !entry.modes || entry.modes.includes(currentMode)
IsActive(entry, currentMode) == ~entry.hasModes \/ currentMode \in entry.modes

\* error instanceof Error ? error.message : fallback
ErrorMessage(thrown, fallback) == IF thrown.isError THEN thrown.message ELSE fallback

\* Step 1 of parseAndValidate: [failed, error, parsedValue, trace]
ParseStep(columnId, rawValue, rowData, currentMode) ==
  LET hasConfig == columnId \in DOMAIN columnConfigsRef
      columnConfig == columnConfigsRef[columnId]
      hasCustom == columnId \in DOMAIN parsersRef
      customParser == parsersRef[columnId]
  IN  IF hasCustom /\ IsActive(customParser, currentMode)
        THEN LET r == CustomParser(customParser.fn, rawValue, rowData)
                 ev == Event("customParser", rowData["id"], columnId, rawValue, rowData,
                             NoSource, currentMode)
             IN  IF r.threw
                   THEN [failed |-> TRUE,
                         error |-> "Parse error: " \o ErrorMessage(r, "Unknown error"),
                         parsedValue |-> Undefined, trace |-> <<ev>>]
                   ELSE [failed |-> FALSE, error |-> "", parsedValue |-> r.value,
                         trace |-> <<ev>>]
      ELSE IF hasConfig /\ columnConfig.defaultParser # ""
                /\ columnConfig.defaultParser \in DefaultParserNames
        THEN [failed |-> FALSE, error |-> "",
              parsedValue |-> DefaultParser(columnConfig.defaultParser, rawValue),
              trace |-> <<Event("defaultParser", rowData["id"], columnId, rawValue,
                                rowData, NoSource, currentMode)>>]
      ELSE [failed |-> FALSE, error |-> "", parsedValue |-> rawValue, trace |-> <<>>]

\* a validator resolution in which the named default of the column
\* configuration comes before the registered validator
ValidateStepPreferringDefault(columnId, parsedValue, rowData, currentMode) ==
  LET hasConfig == columnId \in DOMAIN columnConfigsRef
      columnConfig == columnConfigsRef[columnId]
      hasCustom == columnId \in DOMAIN validatorsRef
      customValidator == validatorsRef[columnId]
  IN  IF hasConfig /\ columnConfig.defaultValidator # ""
           /\ columnConfig.defaultValidator \in DefaultValidatorNames
        THEN [error |-> DefaultValidator(columnConfig.defaultValidator, parsedValue, rowData),
              trace |-> <<Event("defaultValidator", rowData["id"], columnId, parsedValue,
                                rowData, NoSource, currentMode)>>,
              threw |-> FALSE]
      ELSE IF hasCustom /\ IsActive(customValidator, currentMode)
        THEN [error |-> CustomValidator(customValidator.fn, parsedValue, rowData),
              trace |-> <<Event("customValidator", rowData["id"], columnId, parsedValue,
                                rowData, NoSource, currentMode)>>,
              threw |-> CustomValidatorThrows(customValidator.fn, parsedValue, rowData)]
      ELSE [error |-> NoMessage, trace |-> <<>>, threw |-> FALSE]

\* Step 2 of parseAndValidate: [error, trace, threw]; the validator calls are
\* outside any try block, so what a validator throws leaves parseAndValidate
ValidateStep(columnId, parsedValue, rowData, currentMode) ==
  LET hasConfig == columnId \in DOMAIN columnConfigsRef
      columnConfig == columnConfigsRef[columnId]
      hasCustom == columnId \in DOMAIN validatorsRef
      customValidator == validatorsRef[columnId]
  IN  IF hasCustom /\ IsActive(customValidator, currentMode)
        THEN [error |-> CustomValidator(customValidator.fn, parsedValue, rowData),
              trace |-> <<Event("customValidator", rowData["id"], columnId, parsedValue,
                                rowData, NoSource, currentMode)>>,
              threw |-> CustomValidatorThrows(customValidator.fn, parsedValue, rowData)]
      ELSE IF hasConfig /\ columnConfig.defaultValidator # ""
                /\ columnConfig.defaultValidator \in DefaultValidatorNames
        THEN [error |-> DefaultValidator(columnConfig.defaultValidator, parsedValue, rowData),
              trace |-> <<Event("defaultValidator", rowData["id"], columnId, parsedValue,
                                rowData, NoSource, currentMode)>>,
              threw |-> FALSE]
      ELSE [error |-> NoMessage, trace |-> <<>>, threw |-> FALSE]

\* parseAndValidate without the early return of the parser's catch block: the
\* validator still runs, on the raw value
parseAndValidateWithoutEarlyReturn(columnId, rawValue, rowData, currentMode) ==
  LET p == ParseStep(columnId, rawValue, rowData, currentMode)
      v == ValidateStep(columnId, IF p.failed THEN rawValue ELSE p.parsedValue, rowData,
                        currentMode)
  IN  IF p.failed
        THEN [isValid |-> FALSE, error |-> Message(p.error), parsedValue |-> Undefined,
              parseFailed |-> TRUE, returned |-> v.error, trace |-> p.trace \o v.trace, threw |-> v.threw]
      ELSE IF Truthy(v.error)
        THEN [isValid |-> FALSE, error |-> v.error, parsedValue |-> p.parsedValue,
              parseFailed |-> FALSE, returned |-> v.error, trace |-> p.trace \o v.trace, threw |-> v.threw]
        ELSE [isValid |-> TRUE, error |-> NoMessage, parsedValue |-> p.parsedValue,
              parseFailed |-> FALSE, returned |-> v.error, trace |-> p.trace \o v.trace, threw |-> v.threw]

\* parseAndValidate that runs the validator and drops what it returns
parseAndValidateIgnoringValidator(columnId, rawValue, rowData, currentMode) ==
  LET p == ParseStep(columnId, rawValue, rowData, currentMode)
  IN  IF p.failed
        THEN [isValid |-> FALSE, error |-> Message(p.error), parsedValue |-> Undefined,
              parseFailed |-> TRUE, returned |-> NoMessage, trace |-> p.trace,
              threw |-> FALSE]
        ELSE LET v == ValidateStep(columnId, p.parsedValue, rowData, currentMode)
             IN  [isValid |-> TRUE, error |-> NoMessage, parsedValue |-> p.parsedValue,
                  parseFailed |-> FALSE, returned |-> v.error,
                  trace |-> p.trace \o v.trace, threw |-> v.threw]

\* parseAndValidate(columnId, rawValue, rowData): ValidationResult, with the
\* functions it invoked (trace)
parseAndValidate(columnId, rawValue, rowData, currentMode) ==
  LET p == ParseStep(columnId, rawValue, rowData, currentMode)
  IN  IF p.failed
        THEN [isValid |-> FALSE, error |-> Message(p.error), parsedValue |-> Undefined,
              parseFailed |-> TRUE, returned |-> NoMessage, trace |-> p.trace,
              threw |-> FALSE]
        ELSE LET v == ValidateStep(columnId, p.parsedValue, rowData, currentMode)
             IN  IF Truthy(v.error)
                   THEN [isValid |-> FALSE, error |-> v.error, parsedValue |-> p.parsedValue,
                         parseFailed |-> FALSE, returned |-> v.error,
                         trace |-> p.trace \o v.trace, threw |-> v.threw]
                   ELSE [isValid |-> TRUE, error |-> NoMessage, parsedValue |-> p.parsedValue,
                         parseFailed |-> FALSE, returned |-> v.error,
                         trace |-> p.trace \o v.trace, threw |-> v.threw]

(***************************************************************************)
(* The cascade engine: processAsyncUpdate of the basic and enhanced hooks. *)
(* A context ctx carries what a running task has done so far:              *)
(*   st     the reducer state with every dispatch so far applied           *)
(*   proc   processingRef.current                                          *)
(*   tasks  the suspended calls                                            *)
(*   trace  the registered functions invoked, in order                     *)
(*   info   what onCellValueChanged found out about the edit               *)
(*   full   TRUE when a call could not be recorded within MaxTasks         *)
(*   threw  TRUE when the call ends by throwing to its caller              *)
(***************************************************************************)
Context(st, proc, tsk) ==
  [st |-> st, proc |-> proc, tasks |-> tsk, trace |-> <<>>, info |-> Null,
   full |-> FALSE, threw |-> FALSE]

\* dispatch(action) of the hook's useReducer
dispatchOf(st, type, payload) ==
  IF hook = "basic"
    THEN basicGridReducer(st, [type |-> type, payload |-> payload])
    ELSE gridReducer(st, [type |-> type, payload |-> payload])

\* What the API object reads as currentMode / data while a task runs.  The
\* basic hook's closures hold the state of the first render.  The enhanced
\* hook reads apiRef.current.*, which the hook body refreshes on each render:
\* the rendered state when React batches the task's dispatches, the pending
\* state when React renders inside dispatch (sync).
ApiState(rendered, pending, sync) ==
  IF hook = "basic" THEN first
  ELSE IF sync THEN pending ELSE rendered

\* the activeHandlers map built by processAsyncUpdate / getActiveHandlers
ActiveHandlers(currentMode) ==
  [c \in {x \in DOMAIN handlersRef : IsActive(handlersRef[x], currentMode)} |->
     handlersRef[c]]

\* data.find(row => row.id === rowId): the index of the first match, 0 if none
FindRow(data, rowId) ==
  IF \E i \in DOMAIN data : data[i]["id"] = rowId
    THEN CHOOSE i \in DOMAIN data :
           /\ data[i]["id"] = rowId
           /\ \A j \in DOMAIN data : data[j]["id"] = rowId => i <= j
    ELSE 0

FreeTaskId(tsk) == CHOOSE i \in 1..(MaxTasks + 1) :
  /\ i \notin DOMAIN tsk
  /\ \A j \in 1..(MaxTasks + 1) : j \notin DOMAIN tsk => i <= j

\* a guard that never finds the key
InFlightNever(proc, processingKey) == FALSE

\* the guard of processAsyncUpdate: the key is in flight
InFlight(proc, processingKey) == processingKey \in proc

\* processAsyncUpdate(rowId, columnId, newValue, sourceColumnId) up to its
\* first await: either it returns (the context is all that changes) or it
\* invokes the handler and is suspended as a new task.
processAsyncUpdate(ctx, rendered, sync, rowId, columnId, newValue, sourceColumnId, parent) ==
  LET processingKey == TemplateKey(rowId, columnId)
      api == ApiState(rendered, ctx.st, sync)
      activeHandlers == ActiveHandlers(api.currentMode)
  IN  IF InFlight(ctx.proc, processingKey) THEN ctx
      ELSE IF columnId \notin DOMAIN activeHandlers THEN ctx
      ELSE
        LET handler == activeHandlers[columnId]
            st1 == dispatchOf(ctx.st, "SET_LOADING", [id |-> rowId, loading |-> TRUE])
            st2 == dispatchOf(st1, "SET_ERROR", [id |-> rowId, error |-> NoMessage])
            apiData == ApiState(rendered, st2, sync).data
            found == FindRow(apiData, rowId)
        IN  IF found = 0
              THEN \* return inside try: finally runs at once
                   [ctx EXCEPT !.st = dispatchOf(st2, "SET_LOADING",
                                                 [id |-> rowId, loading |-> FALSE]),
                               !.proc = ctx.proc \ {processingKey}]
            ELSE IF Cardinality(DOMAIN ctx.tasks) >= MaxTasks
              THEN [ctx EXCEPT !.full = TRUE]
            ELSE
              LET currentRow == apiData[found]
                  id == FreeTaskId(ctx.tasks)
                  task == [rowId |-> rowId, columnId |-> columnId, newValue |-> newValue,
                           source |-> sourceColumnId, row |-> currentRow,
                           handler |-> handler,
                           active |-> DOMAIN activeHandlers,
                           mode |-> ctx.st.currentMode,
                           phase |-> "handler", parent |-> parent]
              IN  [ctx EXCEPT
                     !.st = st2,
                     !.proc = ctx.proc \cup {processingKey},
                     !.tasks = MapSet(ctx.tasks, id, task),
                     !.trace = Append(ctx.trace,
                        HandlerEvent(handler, rowId, columnId, newValue, currentRow,
                                     sourceColumnId, ctx.st.currentMode))]

RECURSIVE Finally(_, _)
\* a parent that stops waiting when the first of its dependents settles
FinallyAfterFirstDependent(ctx, id) ==
  LET t == ctx.tasks[id]
      rest == MapDelete(ctx.tasks, id)
      ctx1 == [ctx EXCEPT
                 !.st = dispatchOf(ctx.st, "SET_LOADING", [id |-> t.rowId, loading |-> FALSE]),
                 !.proc = ctx.proc \ {TemplateKey(t.rowId, t.columnId)},
                 !.tasks = rest]
  IN  IF /\ t.parent \in DOMAIN rest
         /\ rest[t.parent].phase = "children"
        THEN Finally(ctx1, t.parent)
        ELSE ctx1

\* a finally block that clears the loading flag and forgets the processing key
FinallyLeavingTheKey(ctx, id) ==
  LET t == ctx.tasks[id]
      rest == MapDelete(ctx.tasks, id)
      ctx1 == [ctx EXCEPT
                 !.st = dispatchOf(ctx.st, "SET_LOADING", [id |-> t.rowId, loading |-> FALSE]),
                 !.tasks = rest]
  IN  IF /\ t.parent \in DOMAIN rest
         /\ rest[t.parent].phase = "children"
         /\ ~\E x \in DOMAIN rest : rest[x].parent = t.parent
        THEN Finally(ctx1, t.parent)
        ELSE ctx1

\* finally { processingRef.current.delete(key); SET_LOADING false } of task id,
\* and then of every ancestor whose Promise.all has nothing left to wait for
Finally(ctx, id) ==
  LET t == ctx.tasks[id]
      rest == MapDelete(ctx.tasks, id)
      ctx1 == [ctx EXCEPT
                 !.st = dispatchOf(ctx.st, "SET_LOADING", [id |-> t.rowId, loading |-> FALSE]),
                 !.proc = ctx.proc \ {TemplateKey(t.rowId, t.columnId)},
                 !.tasks = rest]
  IN  IF /\ t.parent \in DOMAIN rest
         /\ rest[t.parent].phase = "children"
         /\ ~\E x \in DOMAIN rest : rest[x].parent = t.parent
        THEN Finally(ctx1, t.parent)
        ELSE ctx1

\* a dependency filter turned round: only the column that caused the
\* invocation is triggered
TriggersOnlySource(t, depColumnId, updates) ==
  /\ depColumnId = t.source
  /\ depColumnId \in t.active
  /\ Get(updates, depColumnId).t # "undefined"

\* a dependency filter that does not look the dependent up in the handlers
\* that were active when the invocation started
TriggersIgnoringSnapshot(t, depColumnId, updates) ==
  /\ depColumnId # t.source
  /\ Get(updates, depColumnId).t # "undefined"

\* whether the completed handler triggers the handler of dependency depColumnId
Triggers(t, depColumnId, updates) ==
  /\ depColumnId # t.source
  /\ depColumnId \in t.active
  /\ Get(updates, depColumnId).t # "undefined"

\* handler.dependencies.filter(...).map(...): the dependent calls, in order
RECURSIVE Cascade(_, _, _, _, _, _)
Cascade(ctx, rendered, sync, id, i, updates) ==
  LET t == ctx.tasks[id]
      deps == t.handler.dependencies
  IN  IF i > Len(deps) THEN ctx
      ELSE IF Triggers(t, deps[i], updates)
        THEN Cascade(processAsyncUpdate(ctx, rendered, sync, t.rowId, deps[i],
                                        updates[deps[i]], t.columnId, id),
                     rendered, sync, id, i + 1, updates)
        ELSE Cascade(ctx, rendered, sync, id, i + 1, updates)

\* a continuation that does not await the dependent calls: its finally block
\* runs as soon as they are started
ResolvedWithoutAwait(ctx, rendered, sync, id, updates) ==
  Finally(Cascade([ctx EXCEPT !.st = dispatchOf(ctx.st, "UPDATE_ROW",
                                  [id |-> ctx.tasks[id].rowId, updates |-> updates])],
                  rendered, sync, id, 1, updates), id)

\* the continuation of task id after `await handler.handler(...)` resolved
Resolved(ctx, rendered, sync, id, updates) ==
  LET t == ctx.tasks[id]
      st1 == dispatchOf(ctx.st, "UPDATE_ROW", [id |-> t.rowId, updates |-> updates])
      ctx1 == Cascade([ctx EXCEPT !.st = st1], rendered, sync, id, 1, updates)
  IN  IF \E x \in DOMAIN ctx1.tasks : ctx1.tasks[x].parent = id
        THEN [ctx1 EXCEPT !.tasks[id].phase = "children"]
        ELSE Finally(ctx1, id)

\* the continuation of task id after the handler rejected: catch, finally
Rejected(ctx, id, error) ==
  LET t == ctx.tasks[id]
      message == ErrorMessage(error, "Unknown error")
  IN  Finally([ctx EXCEPT !.st = dispatchOf(ctx.st, "SET_ERROR",
                                 [id |-> t.rowId, error |-> Message(message)])], id)

(***************************************************************************)
(* Construction.                                                           *)
(***************************************************************************)
NoTasks == [i \in {} |-> Null]

InitialState(initialData, defaultMode) ==
  [data |-> initialData, loading |-> {}, errors |-> EmptyMap, cellErrors |-> EmptyMap,
   currentMode |-> defaultMode, availableModes |-> <<>>]

Init ==
  /\ hook \in Hooks
  /\ \E initialData \in DataSets, defaultMode \in DefaultModes :
       state = InitialState(initialData, defaultMode)
  /\ first = state
  /\ handlersRef = EmptyMap
  /\ parsersRef = EmptyMap
  /\ validatorsRef = EmptyMap
  /\ columnConfigsRef = EmptyMap
  /\ processingRef = {}
  /\ tasks = NoTasks
  /\ calls = MaxCalls
  /\ uncaught = FALSE

(***************************************************************************)
(* Registration and the plain setters (the same in the three hooks unless  *)
(* said otherwise).                                                        *)
(***************************************************************************)
Call ==
  /\ calls > 0
  /\ calls' = calls - 1

registerColumnHandler(handler) ==
  /\ Call
  /\ handlersRef' = MapSet(handlersRef, handler.columnId, handler)
  /\ UNCHANGED <<hook, state, first, parsersRef, validatorsRef, columnConfigsRef,
                 processingRef, tasks, uncaught>>

unregisterColumnHandler(columnId) ==
  /\ Call
  /\ handlersRef' = MapDelete(handlersRef, columnId)
  /\ UNCHANGED <<hook, state, first, parsersRef, validatorsRef, columnConfigsRef,
                 processingRef, tasks, uncaught>>

registerColumnParser(parser) ==
  /\ hook = "enhanced"
  /\ Call
  /\ parsersRef' = MapSet(parsersRef, parser.columnId, parser)
  /\ UNCHANGED <<hook, state, first, handlersRef, validatorsRef, columnConfigsRef,
                 processingRef, tasks, uncaught>>

unregisterColumnParser(columnId) ==
  /\ hook = "enhanced"
  /\ Call
  /\ parsersRef' = MapDelete(parsersRef, columnId)
  /\ UNCHANGED <<hook, state, first, handlersRef, validatorsRef, columnConfigsRef,
                 processingRef, tasks, uncaught>>

registerColumnValidator(validator) ==
  /\ hook = "enhanced"
  /\ Call
  /\ validatorsRef' = MapSet(validatorsRef, validator.columnId, validator)
  /\ UNCHANGED <<hook, state, first, handlersRef, parsersRef, columnConfigsRef,
                 processingRef, tasks, uncaught>>

unregisterColumnValidator(columnId) ==
  /\ hook = "enhanced"
  /\ Call
  /\ validatorsRef' = MapDelete(validatorsRef, columnId)
  /\ UNCHANGED <<hook, state, first, handlersRef, parsersRef, columnConfigsRef,
                 processingRef, tasks, uncaught>>

registerColumnConfig(config) ==
  /\ Call
  /\ columnConfigsRef' = MapSet(columnConfigsRef, config.field, config)
  /\ UNCHANGED <<hook, state, first, handlersRef, parsersRef, validatorsRef,
                 processingRef, tasks, uncaught>>

\* useSimplifiedGridManager.registerMode: setAvailableModes(prev => ...)
simplifiedRegisterMode(st, modeConfig) ==
  LET filtered == SelectSeq(st.availableModes, LAMBDA mode : mode.id # modeConfig.id)
  IN  [st EXCEPT !.availableModes = Append(filtered, modeConfig)]

registerMode(modeConfig) ==
  /\ Call
  /\ state' = IF hook = "simplified"
                THEN simplifiedRegisterMode(state, modeConfig)
                ELSE dispatchOf(state, "REGISTER_MODE", modeConfig)
  /\ UNCHANGED <<hook, first, handlersRef, parsersRef, validatorsRef, columnConfigsRef,
                 processingRef, tasks, uncaught>>

\* useSimplifiedGridManager.setMode: setCurrentMode, setLoading, setErrors
simplifiedSetMode(st, modeId) ==
  [st EXCEPT !.currentMode = modeId, !.loading = {}, !.errors = EmptyMap]

setMode(modeId) ==
  /\ Call
  /\ state' = IF hook = "simplified"
                THEN simplifiedSetMode(state, modeId)
                ELSE dispatchOf(state, "SET_MODE", modeId)
  /\ UNCHANGED <<hook, first, handlersRef, parsersRef, validatorsRef, columnConfigsRef,
                 processingRef, tasks, uncaught>>

\* useSimplifiedGridManager.updateData (returned as setData): setData(newData)
updateData(st, newData) == [st EXCEPT !.data = newData]

setData(data) ==
  /\ Call
  /\ state' = IF hook = "simplified"
                THEN updateData(state, data)
                ELSE dispatchOf(state, "SET_DATA", data)
  /\ UNCHANGED <<hook, first, handlersRef, parsersRef, validatorsRef, columnConfigsRef,
                 processingRef, tasks, uncaught>>

(***************************************************************************)
(* getColumnDefsForMode.  The list is modelled as a map from config.field  *)
(* to the derived definition (the configs are the values of a Map keyed by *)
(* field), a definition as a map from property name to value.  A property  *)
(* the enhanced hook sets to a function is modelled by what that function  *)
(* returns for a cell without an error.                                    *)
(***************************************************************************)
Range(seq) == {seq[i] : i \in DOMAIN seq}

\* availableModes.find(mode => mode.id === currentMode), as a sequence of at
\* most one element
FindMode(availableModes, currentMode) ==
  LET found == SelectSeq(availableModes, LAMBDA mode : mode.id = currentMode)
  IN  IF found = <<>> THEN <<>> ELSE <<found[1]>>

\* currentModeConfig?.columns || []
ActiveColumns(found) == IF found = <<>> THEN <<>> ELSE found[1].columns

\* currentModeConfig?.defaultColumnProps || {}
ModeDefaults(found) == IF found = <<>> THEN EmptyMap ELSE found[1].defaultColumnProps

\* config.modeSpecificProps?.[currentMode] || {}
ModeOverrides(config, currentMode) ==
  IF currentMode \in DOMAIN config.modeSpecificProps
    THEN config.modeSpecificProps[currentMode] ELSE EmptyMap

\* the own properties of a config that ...config copies: field and props (the
\* parser and validator names and the mode lists are copied too; no mode
\* default or override of the catalogue names them)
ConfigProps(config) == Spread([k \in {"field"} |-> Str(config.field)], config.props)

\* an inActiveColumns test without the case of the empty list
InActiveColumnsOfNonEmptyList(activeColumns, field) == field \in Range(activeColumns)

\* activeColumns.length === 0 || activeColumns.includes(config.field)
InActiveColumns(activeColumns, field) ==
  Len(activeColumns) = 0 \/ field \in Range(activeColumns)

\* the filter of getColumnDefsForMode: modeMatch && inActiveColumns
ColumnShown(config, currentMode, activeColumns) ==
  /\ IsActive(config, currentMode)
  /\ InActiveColumns(activeColumns, config.field)

\* { ...modeDefaults, ...config, ...modeOverrides }
ThreeSpread(config, currentMode, modeDefaults) ==
  Spread(Spread(modeDefaults, ConfigProps(config)), ModeOverrides(config, currentMode))

\* the two properties the enhanced hook puts last: tooltipValueGetter returns
\* cellErrors.get(cellKey) || null, cellClass returns originalClass
\* (config.cellClass) when the cell has no error
ErrorDecorations(config) ==
  [k \in {"tooltipValueGetter", "cellClass"} |->
     IF k = "cellClass" THEN Get(config.props, "cellClass") ELSE Null]

\* the map callback of getColumnDefsForMode
ColumnDef(config, currentMode, modeDefaults) ==
  IF hook = "enhanced"
    THEN Spread(ThreeSpread(config, currentMode, modeDefaults), ErrorDecorations(config))
    ELSE ThreeSpread(config, currentMode, modeDefaults)

ColumnDefs(found, currentMode) ==
  [f \in {x \in DOMAIN columnConfigsRef :
            ColumnShown(columnConfigsRef[x], currentMode, ActiveColumns(found))} |->
     ColumnDef(columnConfigsRef[f], currentMode, ModeDefaults(found))]

\* getColumnDefsForMode() on the state st that the hook's closures read
ColumnDefsOf(st) == ColumnDefs(FindMode(st.availableModes, st.currentMode), st.currentMode)

\* the basic hook's API object is built on the first render and reads the
\* state of that render; the other two hooks read the rendered state
getColumnDefsForMode == IF hook = "basic" THEN ColumnDefsOf(first) ELSE ColumnDefsOf(state)

(***************************************************************************)
(* Cell edits.  params.data is a row the grid shows: row i of the data.    *)
(***************************************************************************)
\* what a call leaves behind: the context becomes the next state
Commit(ctx) ==
  /\ ~ctx.full
  /\ state' = ctx.st
  /\ processingRef' = ctx.proc
  /\ tasks' = ctx.tasks
  /\ uncaught' = (uncaught \/ ctx.threw)

\* onCellValueChanged after `const validationResult = parseAndValidate(...)`:
\* st1 is the reducer state with the cell error cleared
afterValidation(ctx, rendered, sync, rowId, field, newValue, st1, validationResult) ==
  IF validationResult.threw
    THEN \* the validator threw: the exception leaves onCellValueChanged
         [ctx EXCEPT !.st = st1, !.trace = validationResult.trace,
                     !.info = [same |-> FALSE] @@ validationResult,
                     !.threw = TRUE]
  ELSE IF ~validationResult.isValid
    THEN [ctx EXCEPT
            !.st = dispatchOf(st1, "SET_CELL_ERROR",
                     [rowId |-> rowId, columnId |-> field,
                      error |-> validationResult.error]),
            !.trace = validationResult.trace,
            !.info = [same |-> FALSE] @@ validationResult]
    ELSE
      LET finalValue == IF validationResult.parsedValue.t # "undefined"
                          THEN validationResult.parsedValue ELSE newValue
          st2 == dispatchOf(st1, "UPDATE_ROW",
                    [id |-> rowId, updates |-> [k \in {field} |-> finalValue]])
          ctx2 == [ctx EXCEPT !.st = st2, !.trace = validationResult.trace,
                              !.info = [same |-> FALSE] @@ validationResult]
          currentMode == ApiState(rendered, st2, sync).currentMode
      IN  IF field \in DOMAIN handlersRef /\ IsActive(handlersRef[field], currentMode)
            THEN processAsyncUpdate(ctx2, rendered, sync, rowId, field, finalValue,
                                    NoSource, 0)
            ELSE ctx2

\* an onCellValueChanged that does not clear the cell's error first
clearCellErrorSkipped(st, rowId, field) == st

\* the first dispatch of onCellValueChanged: the cell's error is cleared
clearCellError(st, rowId, field) ==
  dispatchOf(st, "SET_CELL_ERROR", [rowId |-> rowId, columnId |-> field, error |-> NoMessage])

\* parseAndValidate as onCellValueChanged calls it, after that dispatch
validate(rendered, sync, data, field, newValue, st1) ==
  parseAndValidate(field, newValue, data, ApiState(rendered, st1, sync).currentMode)

\* useEnhancedGridStateManager: apiRef.current.onCellValueChanged(params)
enhancedEditFrom(ctx, rendered, sync, data, field, newValue, st1) ==
  afterValidation(ctx, rendered, sync, data["id"], field, newValue, st1,
                  validate(rendered, sync, data, field, newValue, st1))

enhancedEdit(ctx, rendered, sync, data, field, newValue) ==
  enhancedEditFrom(ctx, rendered, sync, data, field, newValue,
                   clearCellError(ctx.st, data["id"], field))

\* onCellValueChanged without its first line: an edit to the value the cell
\* already holds is processed like any other
onCellValueChangedWithoutIdentityTest(i, field, newValue) ==
  /\ hook = "enhanced"
  /\ Call
  /\ i \in DOMAIN state.data
  /\ \E sync \in BOOLEAN :
       LET ctx == enhancedEdit(Context(state, processingRef, tasks), state, sync,
                               state.data[i], field, newValue)
       IN  /\ Commit(ctx)
  /\ UNCHANGED <<hook, first, handlersRef, parsersRef, validatorsRef, columnConfigsRef>>

onCellValueChanged(i, field, newValue) ==
  /\ hook = "enhanced"
  /\ Call
  /\ i \in DOMAIN state.data
  /\ \E sync \in BOOLEAN :
       LET data == state.data[i]
           ctx0 == Context(state, processingRef, tasks)
           ctx == IF newValue = data[field] THEN [ctx0 EXCEPT !.info = [same |-> TRUE]]
                  ELSE enhancedEdit(ctx0, state, sync, data, field, newValue)
       IN  /\ Commit(ctx)
  /\ UNCHANGED <<hook, first, handlersRef, parsersRef, validatorsRef, columnConfigsRef>>

\* The same call for a row the grid still shows after a data load removed
\* it from the store: params.data is row i of the initial data, the store is
\* empty.
onCellValueChangedForRemovedRow(i, field, newValue) ==
  /\ hook = "enhanced"
  /\ Call
  /\ state.data = <<>>
  /\ i \in DOMAIN first.data
  /\ \E sync \in BOOLEAN :
       LET data == first.data[i]
           ctx0 == Context(state, processingRef, tasks)
           ctx == IF newValue = data[field] THEN [ctx0 EXCEPT !.info = [same |-> TRUE]]
                  ELSE enhancedEdit(ctx0, state, sync, data, field, newValue)
       IN  /\ Commit(ctx)
  /\ UNCHANGED <<hook, first, handlersRef, parsersRef, validatorsRef, columnConfigsRef>>

\* useGridStateManager (basic): apiRef.current.onCellValueChanged(params)
basicEdit(ctx, rendered, sync, data, field, newValue) ==
  LET rowId == data["id"]
      st1 == dispatchOf(ctx.st, "UPDATE_ROW",
                [id |-> rowId, updates |-> [k \in {field} |-> newValue]])
      ctx1 == [ctx EXCEPT !.st = st1]
  IN  IF field \in DOMAIN handlersRef /\ IsActive(handlersRef[field], first.currentMode)
        THEN processAsyncUpdate(ctx1, rendered, sync, rowId, field, newValue, NoSource, 0)
        ELSE ctx1

basicOnCellValueChanged(i, field, newValue) ==
  /\ hook = "basic"
  /\ Call
  /\ i \in DOMAIN state.data
  /\ \E sync \in BOOLEAN :
       LET data == state.data[i]
           ctx0 == Context(state, processingRef, tasks)
           ctx == IF newValue = data[field] THEN ctx0
                  ELSE basicEdit(ctx0, state, sync, data, field, newValue)
       IN  /\ Commit(ctx)
  /\ UNCHANGED <<hook, first, handlersRef, parsersRef, validatorsRef, columnConfigsRef>>

(***************************************************************************)
(* A handler's promise settles (basic and enhanced hooks).                 *)
(***************************************************************************)
handlerResolves(id, updates) ==
  /\ hook \in {"basic", "enhanced"}
  /\ id \in DOMAIN tasks
  /\ tasks[id].phase = "handler"
  /\ updates \in HandlerUpdates(tasks[id].handler)
  /\ \E sync \in BOOLEAN :
       LET ctx == Resolved(Context(state, processingRef, tasks), state, sync, id, updates)
       IN  /\ Commit(ctx)
  /\ UNCHANGED <<hook, first, handlersRef, parsersRef, validatorsRef, columnConfigsRef,
                 calls>>

handlerRejects(id, error) ==
  /\ hook \in {"basic", "enhanced"}
  /\ id \in DOMAIN tasks
  /\ tasks[id].phase = "handler"
  /\ LET ctx == Rejected(Context(state, processingRef, tasks), id, error)
     IN  /\ Commit(ctx)
  /\ UNCHANGED <<hook, first, handlersRef, parsersRef, validatorsRef, columnConfigsRef,
                 calls>>

(***************************************************************************)
(* useSimplifiedGridManager: processAsyncUpdate, onCellValueChanged and    *)
(* the promise callbacks.  Its callbacks close over the rendered           *)
(* currentMode; its state updaters run on the pending state.               *)
(***************************************************************************)
simplifiedProcessAsyncUpdate(ctx, rendered, rowId, columnId, newValue) ==
  LET processingKey == TemplateKey(rowId, columnId)
  IN  IF InFlight(ctx.proc, processingKey) THEN ctx
      ELSE IF columnId \notin DOMAIN handlersRef
              \/ ~IsActive(handlersRef[columnId], rendered.currentMode) THEN ctx
      ELSE
        LET handler == handlersRef[columnId]
            st1 == [ctx.st EXCEPT !.loading = ctx.st.loading \cup {rowId},
                                  !.errors = MapDelete(ctx.st.errors, rowId)]
            found == FindRow(st1.data, rowId)
            ctx1 == [ctx EXCEPT !.st = st1, !.proc = ctx.proc \cup {processingKey}]
        IN  IF found = 0 THEN ctx1   \* the updater returns currentData: nothing is undone
            ELSE IF Cardinality(DOMAIN ctx.tasks) >= MaxTasks
              THEN [ctx EXCEPT !.full = TRUE]
            ELSE
              LET currentRow == st1.data[found]
                  task == [rowId |-> rowId, columnId |-> columnId, newValue |-> newValue,
                           source |-> NoSource, row |-> currentRow, handler |-> handler,
                           active |-> {}, mode |-> ctx.st.currentMode,
                           phase |-> "handler", parent |-> 0]
              IN  [ctx1 EXCEPT
                     !.tasks = MapSet(ctx.tasks, FreeTaskId(ctx.tasks), task),
                     !.trace = Append(ctx.trace,
                        HandlerEvent(handler, rowId, columnId, newValue, currentRow,
                                     NoSource, ctx.st.currentMode))]

simplifiedEdit(ctx, rendered, data, field, newValue) ==
  LET rowId == data["id"]
      st1 == [ctx.st EXCEPT !.data = [i \in DOMAIN ctx.st.data |->
                IF ctx.st.data[i]["id"] = rowId
                  THEN Spread(ctx.st.data[i], [k \in {field} |-> newValue])
                  ELSE ctx.st.data[i]]]
      ctx1 == [ctx EXCEPT !.st = st1]
  IN  IF field \in DOMAIN handlersRef
        THEN simplifiedProcessAsyncUpdate(ctx1, rendered, rowId, field, newValue)
        ELSE ctx1

simplifiedOnCellValueChanged(i, field, newValue) ==
  /\ hook = "simplified"
  /\ Call
  /\ i \in DOMAIN state.data
  /\ LET data == state.data[i]
         ctx0 == Context(state, processingRef, tasks)
         ctx == IF newValue = data[field] THEN ctx0
                ELSE simplifiedEdit(ctx0, state, data, field, newValue)
     IN  /\ Commit(ctx)
  /\ UNCHANGED <<hook, first, handlersRef, parsersRef, validatorsRef, columnConfigsRef>>

\* .then(updates => ...) followed by .finally(...)
simplifiedThen(ctx, id, updates) ==
  LET t == ctx.tasks[id]
      st1 == [ctx.st EXCEPT
                !.data = [i \in DOMAIN ctx.st.data |->
                   IF ctx.st.data[i]["id"] = t.rowId
                     THEN Spread(ctx.st.data[i], updates)
                     ELSE ctx.st.data[i]],
                !.loading = ctx.st.loading \ {t.rowId}]
  IN  [ctx EXCEPT !.st = st1,
                  !.proc = ctx.proc \ {TemplateKey(t.rowId, t.columnId)},
                  !.tasks = MapDelete(ctx.tasks, id)]

\* .catch(error => ...) followed by .finally(...)
simplifiedCatch(ctx, id, error) ==
  LET t == ctx.tasks[id]
      \* error.message || 'Unknown error'
      message == IF error.isError /\ error.message # "" THEN error.message
                 ELSE "Unknown error"
      st1 == [ctx.st EXCEPT !.errors = MapSet(ctx.st.errors, t.rowId, message),
                            !.loading = ctx.st.loading \ {t.rowId}]
  IN  [ctx EXCEPT !.st = st1,
                  !.proc = ctx.proc \ {TemplateKey(t.rowId, t.columnId)},
                  !.tasks = MapDelete(ctx.tasks, id)]

simplifiedHandlerResolves(id, updates) ==
  /\ hook = "simplified"
  /\ id \in DOMAIN tasks
  /\ updates \in HandlerUpdates(tasks[id].handler)
  /\ Commit(simplifiedThen(Context(state, processingRef, tasks), id, updates))
  /\ UNCHANGED <<hook, first, handlersRef, parsersRef, validatorsRef, columnConfigsRef,
                 calls>>

simplifiedHandlerRejects(id, error) ==
  /\ hook = "simplified"
  /\ id \in DOMAIN tasks
  /\ Commit(simplifiedCatch(Context(state, processingRef, tasks), id, error))
  /\ UNCHANGED <<hook, first, handlersRef, parsersRef, validatorsRef, columnConfigsRef,
                 calls>>

\* an edit event, or a triggerAsyncUpdate call, for a row that a bulk load
\* has removed from the data
simplifiedOnCellValueChangedForRemovedRow(i, field, newValue) ==
  /\ hook = "simplified"
  /\ Call
  /\ state.data = <<>>
  /\ i \in DOMAIN first.data
  /\ LET data == first.data[i]
         ctx0 == Context(state, processingRef, tasks)
         ctx == IF newValue = data[field] THEN ctx0
                ELSE simplifiedEdit(ctx0, state, data, field, newValue)
     IN  /\ Commit(ctx)
  /\ UNCHANGED <<hook, first, handlersRef, parsersRef, validatorsRef, columnConfigsRef>>

(***************************************************************************)
(* The specification.                                                      *)
(***************************************************************************)
Next ==
  \/ \E handler \in HandlerCatalogue : registerColumnHandler(handler)
  \/ \E handler \in HandlerCatalogue : unregisterColumnHandler(handler.columnId)
  \/ \E parser \in ParserCatalogue : registerColumnParser(parser)
  \/ \E parser \in ParserCatalogue : unregisterColumnParser(parser.columnId)
  \/ \E validator \in ValidatorCatalogue : registerColumnValidator(validator)
  \/ \E validator \in ValidatorCatalogue : unregisterColumnValidator(validator.columnId)
  \/ \E config \in ConfigCatalogue : registerColumnConfig(config)
  \/ \E modeConfig \in ModeCatalogue : registerMode(modeConfig)
  \/ \E modeId \in ModeIds : setMode(modeId)
  \/ \E data \in DataSets : setData(data)
  \/ \E i \in EditedRows, field \in Fields, newValue \in EditValues :
       onCellValueChanged(i, field, newValue)
  \/ \E i \in EditedRows, field \in Fields, newValue \in EditValues :
       onCellValueChangedForRemovedRow(i, field, newValue)
  \/ \E i \in EditedRows, field \in Fields, newValue \in EditValues :
       basicOnCellValueChanged(i, field, newValue)
  \/ \E i \in EditedRows, field \in Fields, newValue \in EditValues :
       simplifiedOnCellValueChanged(i, field, newValue)
  \/ \E id \in 1..MaxTasks, error \in Rejections : handlerRejects(id, error)
  \/ \E id \in 1..MaxTasks, field \in Fields, filled \in BOOLEAN :
       handlerResolves(id, IF filled THEN [k \in {field} |-> Num(40)] ELSE EmptyMap)
  \/ \E id \in 1..MaxTasks, field \in Fields, filled \in BOOLEAN :
       simplifiedHandlerResolves(id, IF filled THEN [k \in {field} |-> Num(40)] ELSE EmptyMap)
  \/ \E id \in 1..MaxTasks, error \in Rejections : simplifiedHandlerRejects(id, error)

Spec == Init /\ [][Next]_vars

(***************************************************************************)
(* The enhanced hook's cascade engine on its own: the same actions, from a *)
(* loaded grid in the editing mode, with room for one more call so that    *)
(* two handlers can be registered and two edits be in flight together.     *)
(***************************************************************************)
EngineInit ==
  /\ hook = "enhanced"
  /\ state = InitialState(<<Row1, Row2>>, "editing")
  /\ first = state
  /\ handlersRef = EmptyMap
  /\ parsersRef = EmptyMap
  /\ validatorsRef = EmptyMap
  /\ columnConfigsRef = EmptyMap
  /\ processingRef = {}
  /\ tasks = NoTasks
  /\ calls = MaxEngineCalls
  /\ uncaught = FALSE

EngineNext ==
  \/ \E handler \in HandlerCatalogue : registerColumnHandler(handler)
  \/ \E modeId \in ModeIds : setMode(modeId)
  \/ \E i \in Rows, field \in Fields, newValue \in {Str("20")} :
       onCellValueChanged(i, field, newValue)
  \/ \E id \in 1..MaxTasks, error \in Rejections : handlerRejects(id, error)
  \/ \E id \in 1..MaxTasks, field \in Fields, filled \in BOOLEAN :
       handlerResolves(id, IF filled THEN [k \in {field} |-> Num(40)] ELSE EmptyMap)
  \/ \E id \in 1..MaxTasks : handlerResolves(id, IdUpdate)

EngineSpec == EngineInit /\ [][EngineNext]_vars

(***************************************************************************)
(* The cascade engine with the three handlers of a dependency cycle.       *)
(***************************************************************************)
CycleInit == EngineInit

CycleNext ==
  \/ \E handler \in CycleCatalogue : registerColumnHandler(handler)
  \/ \E i \in Rows, field \in Fields, newValue \in {Str("20")} :
       onCellValueChanged(i, field, newValue)
  \/ \E id \in 1..MaxTasks, error \in Rejections : handlerRejects(id, error)
  \/ \E id \in 1..MaxTasks, field \in CycleFields, filled \in BOOLEAN :
       handlerResolves(id, IF filled THEN [k \in {field} |-> Num(40)] ELSE EmptyMap)

CycleSpec == CycleInit /\ [][CycleNext]_vars

(***************************************************************************)
(* Validated edits next to handler invocations: the cell-level and the     *)
(* record-level error map of the enhanced hook.                            *)
(***************************************************************************)
ErrorMapsInit == EngineInit

ErrorMapsNext ==
  \/ \E handler \in HandlerCatalogue : registerColumnHandler(handler)
  \/ \E validator \in ValidatorCatalogue : registerColumnValidator(validator)
  \/ \E i \in EditedRows, field \in Fields, newValue \in {Str("20"), Str("-5")} :
       onCellValueChanged(i, field, newValue)
  \/ \E id \in 1..MaxTasks : handlerRejects(id, [isError |-> TRUE, message |-> "boom"])
  \/ \E id \in 1..MaxTasks, field \in Fields, filled \in BOOLEAN :
       handlerResolves(id, IF filled THEN [k \in {field} |-> Num(40)] ELSE EmptyMap)

ErrorMapsSpec == ErrorMapsInit /\ [][ErrorMapsNext]_vars

(***************************************************************************)
(* Record and column ids that contain the separator of the keys: records   *)
(* '1' and '1-price', columns 'total' and 'price-total'.                   *)
(***************************************************************************)
SeparatorFields == {"total", "price-total"}
SeparatorRow(id) == [k \in {"id"} \cup SeparatorFields |->
  IF k = "id" THEN Str(id) ELSE Num(10)]
SeparatorHandlers ==
  {[columnId |-> f, hasModes |-> FALSE, modes |-> {}, dependencies |-> <<>>] :
     f \in SeparatorFields}
\* a validator of total that wants a number: without a parser it rejects text
SeparatorValidators ==
  {[columnId |-> "total", hasModes |-> FALSE, modes |-> {}, fn |-> "examplePrice"]}

SeparatorInit ==
  /\ hook = "enhanced"
  /\ state = InitialState(<<SeparatorRow("1"), SeparatorRow("1-price")>>, "editing")
  /\ first = state
  /\ handlersRef = EmptyMap
  /\ parsersRef = EmptyMap
  /\ validatorsRef = EmptyMap
  /\ columnConfigsRef = EmptyMap
  /\ processingRef = {}
  /\ tasks = NoTasks
  /\ calls = MaxEngineCalls
  /\ uncaught = FALSE

SeparatorNext ==
  \/ \E handler \in SeparatorHandlers : registerColumnHandler(handler)
  \/ \E validator \in SeparatorValidators : registerColumnValidator(validator)
  \/ \E validator \in SeparatorValidators : unregisterColumnValidator(validator.columnId)
  \/ \E i \in Rows, field \in SeparatorFields : onCellValueChanged(i, field, Str("20"))
  \/ \E id \in 1..MaxTasks : handlerRejects(id, [isError |-> TRUE, message |-> "boom"])
  \/ \E id \in 1..MaxTasks : handlerResolves(id, EmptyMap)

SeparatorSpec == SeparatorInit /\ [][SeparatorNext]_vars

(***************************************************************************)
(* useSimplifiedGridManager on its own, from a loaded grid.                *)
(***************************************************************************)
SimplifiedInit ==
  /\ hook = "simplified"
  /\ \E defaultMode \in DefaultModes : state = InitialState(<<Row1, Row2>>, defaultMode)
  /\ first = state
  /\ handlersRef = EmptyMap
  /\ parsersRef = EmptyMap
  /\ validatorsRef = EmptyMap
  /\ columnConfigsRef = EmptyMap
  /\ processingRef = {}
  /\ tasks = NoTasks
  /\ calls = MaxEngineCalls
  /\ uncaught = FALSE

SimplifiedNext ==
  \/ \E handler \in HandlerCatalogue : registerColumnHandler(handler)
  \/ \E modeId \in ModeIds : setMode(modeId)
  \/ \E data \in DataSets : setData(data)
  \/ \E i \in Rows, field \in Fields, newValue \in {Str("20")} :
       simplifiedOnCellValueChanged(i, field, newValue)
  \/ \E i \in Rows, field \in Fields, newValue \in {Str("20")} :
       simplifiedOnCellValueChangedForRemovedRow(i, field, newValue)
  \/ \E id \in 1..MaxTasks, field \in Fields, filled \in BOOLEAN :
       simplifiedHandlerResolves(id, IF filled THEN [k \in {field} |-> Num(40)] ELSE EmptyMap)
  \/ \E id \in 1..MaxTasks, error \in Rejections : simplifiedHandlerRejects(id, error)

SimplifiedSpec == SimplifiedInit /\ [][SimplifiedNext]_vars

(***************************************************************************)
(* The cascade engine with the edits of one record: a handler completes    *)
(* while its dependent's key is in flight, or after the mode was switched  *)
(* or a handler registered.                                                *)
(***************************************************************************)
DependencyInit == EngineInit

DependencyNext ==
  \/ \E handler \in HandlerCatalogue : registerColumnHandler(handler)
  \/ \E modeId \in ModeIds : setMode(modeId)
  \/ \E i \in EditedRows, field \in Fields, newValue \in {Str("20")} :
       onCellValueChanged(i, field, newValue)
  \/ \E id \in 1..MaxTasks : handlerRejects(id, [isError |-> TRUE, message |-> "boom"])
  \/ \E id \in 1..MaxTasks, field \in Fields, filled \in BOOLEAN :
       handlerResolves(id, IF filled THEN [k \in {field} |-> Num(40)] ELSE EmptyMap)

DependencySpec == DependencyInit /\ [][DependencyNext]_vars

(***************************************************************************)
(* The cascade engine with a handler that has two dependents.              *)
(***************************************************************************)
\* what the handlers of the catalogue may resolve with
FanOutUpdates == UNION {HandlerUpdates(h) : h \in FanOutCatalogue} \ {IdUpdate}

FanOutInit == EngineInit

FanOutNext ==
  \/ \E handler \in FanOutCatalogue : registerColumnHandler(handler)
  \/ \E i \in Rows, field \in Fields, newValue \in {Str("20")} :
       onCellValueChanged(i, field, newValue)
  \/ \E id \in 1..MaxTasks, error \in Rejections : handlerRejects(id, error)
  \/ \E id \in 1..MaxTasks, updates \in FanOutUpdates : handlerResolves(id, updates)

FanOutSpec == FanOutInit /\ [][FanOutNext]_vars

(***************************************************************************)
(* useModePermissions: an effect over the basic hook's return value, run   *)
(* after every render in which the role, the available modes or the        *)
(* current mode changed.                                                   *)
(***************************************************************************)
\* the object literal allowedModes
allowedModes ==
  [role \in {"admin", "manager", "editor", "viewer"} |->
     CASE role = "admin" -> <<"editing", "readonly", "advanced", "inventory">>
       [] role = "manager" -> <<"editing", "readonly", "advanced">>
       [] role = "editor" -> <<"editing", "readonly">>
       [] role = "viewer" -> <<"readonly">>]

\* names an object literal inherits from Object.prototype: indexing the
\* literal by one of them yields a function, which is truthy and no array
InheritedNames == {"constructor"}
Array(items) == [isArray |-> TRUE, items |-> items]
NotAnArray == [isArray |-> FALSE, items |-> <<>>]

\* the userRole values the component is rendered with
Roles == {"admin", "editor", "viewer", "guest", "constructor"}

\* allowedModes[userRole] || ['readonly']
UserModes(userRole) ==
  IF userRole \in DOMAIN allowedModes THEN Array(allowedModes[userRole])
  ELSE IF userRole \in InheritedNames THEN NotAnArray
  ELSE Array(<<"readonly">>)

PermissionModeIds == ModeIds \cup {"advanced"}
PermissionCatalogue ==
  ModeCatalogue \cup
    {[id |-> "advanced", name |-> "Advanced Mode", columns |-> <<"price", "total">>,
      defaultColumnProps |-> [editable |-> Bool(TRUE)]]}

\* availableModes.filter(mode => userModes.includes(mode.id))
FilteredModes(availableModes, userModes) ==
  SelectSeq(availableModes, LAMBDA mode : mode.id \in Range(userModes.items))

\* one run of the effect.  userModes.includes / userModes.join of a value
\* that is no array is a call of undefined: the effect throws a TypeError
\* before or instead of setMode.
useModePermissions(userRole) ==
  LET userModes == UserModes(userRole)
      filteredModes == FilteredModes(state.availableModes, userModes)
  IN  /\ hook = "basic"
      /\ ~uncaught
      /\ IF ~userModes.isArray
           THEN /\ uncaught' = TRUE
                /\ UNCHANGED state
           ELSE /\ state' = IF /\ Len(filteredModes) > 0
                               /\ state.currentMode \notin Range(userModes.items)
                              THEN dispatchOf(state, "SET_MODE", filteredModes[1].id)
                              ELSE state
                /\ UNCHANGED uncaught
      /\ UNCHANGED <<hook, first, handlersRef, parsersRef, validatorsRef,
                     columnConfigsRef, processingRef, tasks, calls>>

PermissionsInit ==
  /\ hook = "basic"
  /\ \E initialData \in DataSets, defaultMode \in DefaultModes :
       state = InitialState(initialData, defaultMode)
  /\ first = state
  /\ handlersRef = EmptyMap
  /\ parsersRef = EmptyMap
  /\ validatorsRef = EmptyMap
  /\ columnConfigsRef = EmptyMap
  /\ processingRef = {}
  /\ tasks = NoTasks
  /\ calls = MaxCalls
  /\ uncaught = FALSE

PermissionsNext ==
  \/ \E modeConfig \in PermissionCatalogue : registerMode(modeConfig)
  \/ \E modeId \in PermissionModeIds : setMode(modeId)
  \/ \E userRole \in Roles : useModePermissions(userRole)

PermissionsSpec == PermissionsInit /\ [][PermissionsNext]_vars

(***************************************************************************)
(* Properties.  An edit is identified in a step by the action it satisfies *)
(* and judged by what parseAndValidate computes for it in the state before *)
(* the step.                                                               *)
(***************************************************************************)
KeyOf(i, field) == TemplateKey(state.data[i]["id"], field)
IsValidatorEvent(e) == e.fn \in {"customValidator", "defaultValidator"}
IsParserEvent(e) == e.fn \in {"customParser", "defaultParser"}
KeysOfRow(proc, rowId) == {k \in proc : \E c \in CycleFields : k = TemplateKey(rowId, c)}

\* C1: in the enhanced hook no two outstanding invocations (handler pending or
\* awaiting its dependents) share a (record id, column id) pair, and every
\* outstanding invocation holds its processing key.
C1_OneInvocationPerKey ==
  hook = "enhanced" =>
    /\ \A a, b \in DOMAIN tasks :
         (tasks[a].rowId = tasks[b].rowId /\ tasks[a].columnId = tasks[b].columnId)
           => a = b
    /\ \A a \in DOMAIN tasks : TemplateKey(tasks[a].rowId, tasks[a].columnId) \in processingRef

\* the same cell was edited again ("20", then "-5") while its handler was
\* still pending: the second edit is in the store, the invocation is the first
C1_SecondEditWhileInFlight ==
  /\ hook = "enhanced"
  /\ \E a \in DOMAIN tasks, i \in DOMAIN state.data :
       /\ tasks[a].rowId = state.data[i]["id"]
       /\ tasks[a].phase = "handler"
       /\ tasks[a].newValue = Str("20")
       /\ state.data[i][tasks[a].columnId] = Str("-5")

\* C2: when an invocation for a record finishes while a loading flag is set
\* and another processing key of the same record remains in flight, the
\* record stays in the loading set (loading iff some key of the record is
\* in flight).
C2_LoadingKeptWhileKeyRemains ==
  [][hook = "enhanced" =>
       \A id \in DOMAIN tasks :
         ( /\ id \notin DOMAIN tasks'
           /\ tasks[id].rowId \in state.loading
           /\ KeysOfRow(processingRef', tasks[id].rowId) # {} )
         => tasks[id].rowId \in state'.loading]_vars

\* what the validator of the edit returned, NoMessage if none ran
ValidatorReturn(i, field, newValue) ==
  LET p == ParseStep(field, newValue, state.data[i], state.currentMode)
  IN  IF p.failed THEN NoMessage
      ELSE ValidateStep(field, p.parsedValue, state.data[i], state.currentMode).error

\* the edit is rejected with this message: cell error set, field kept, no handler
EditRejectedWith(i, field, message) ==
  /\ KeyOf(i, field) \in DOMAIN state'.cellErrors
  /\ state'.cellErrors[KeyOf(i, field)] = message
  /\ state'.data = state.data
  /\ tasks' = tasks
  /\ processingRef' = processingRef

C4_ParseFailureSkipsValidator ==
  [][\A i \in Rows, field \in Fields, newValue \in EditValues :
       ( /\ hook = "enhanced"
         /\ i \in DOMAIN state.data
         /\ newValue # state.data[i][field]
         /\ calls' # calls )
       => LET r == parseAndValidate(field, newValue, state.data[i], state.currentMode)
              failed == ParseStep(field, newValue, state.data[i], state.currentMode).failed
          IN  /\ \A a, b \in DOMAIN r.trace :
                   (IsValidatorEvent(r.trace[a]) /\ IsParserEvent(r.trace[b])) => b < a
              /\ failed =>
                   /\ \A a \in DOMAIN r.trace : ~IsValidatorEvent(r.trace[a])
                   /\ onCellValueChanged(i, field, newValue) =>
                        /\ state'.data = state.data
                        /\ tasks' = tasks
                        /\ processingRef' = processingRef]_vars

\* the registered parser threw on "abc" for a price that has a validator
C4_ParseFailed ==
  /\ hook = "enhanced"
  /\ state.data = <<Row1, Row2>>
  /\ "1-price" \in DOMAIN state.cellErrors
  /\ state.cellErrors["1-price"] = "Parse error: Not a number"
  /\ ("price" \in DOMAIN validatorsRef \/ "price" \in DOMAIN columnConfigsRef)
  /\ tasks = NoTasks

\* the column's parser is the named default number parser and the raw input
\* is text that is not a number
NotConvertible(field, newValue) ==
  /\ field \in DOMAIN columnConfigsRef
  /\ columnConfigsRef[field].defaultParser = "number"
  /\ ~(field \in DOMAIN parsersRef /\ IsActive(parsersRef[field], state.currentMode))
  /\ newValue.t = "string"
  /\ newValue # Str("")
  /\ ParseFloat(newValue.s).nan

\* C5: an edit whose raw input cannot be converted to the column's type
\* (non-numeric text under the named default number parser) records a cell
\* error for (record, column) and does not commit the field.
C5_UnconvertibleInputRejected ==
  [][\A i \in Rows, field \in Fields, newValue \in EditValues :
       ( /\ hook = "enhanced"
         /\ calls' # calls
         /\ i \in DOMAIN state.data
         /\ NotConvertible(field, newValue)
         /\ onCellValueChanged(i, field, newValue) )
       => /\ KeyOf(i, field) \in DOMAIN state'.cellErrors
          /\ state'.data = state.data]_vars

\* C6: the record snapshot handed to the handler that an edit starts holds
\* the committed value of the edited field.
C6_SnapshotHoldsCommittedValue ==
  hook = "enhanced" =>
    \A a \in DOMAIN tasks :
      (tasks[a].source = NoSource /\ tasks[a].phase = "handler")
        => tasks[a].row[tasks[a].columnId] = tasks[a].newValue

\* C7: when the handler of an invocation rejects, the record has an error
\* entry afterwards, its fields are unchanged and no dependency is triggered.
C7_RejectionRecorded ==
  [][\A id \in DOMAIN tasks, error \in Rejections :
       (hook = "enhanced" /\ calls' = calls /\ handlerRejects(id, error))
       => /\ tasks[id].rowId \in DOMAIN state'.errors
          /\ state'.data = state.data
          /\ DOMAIN tasks' \subseteq DOMAIN tasks]_vars

\* every outstanding invocation was started in a mode its handler lists
InvokedInListedMode ==
  \A a \in DOMAIN tasks :
    tasks[a].handler.hasModes => tasks[a].mode \in tasks[a].handler.modes

\* the edit passes parsing and validation (the basic and simplified hooks do neither)
EditAccepted(i, field, newValue) ==
  hook = "enhanced" =>
    LET r == parseAndValidate(field, newValue, state.data[i], state.currentMode)
    IN  r.isValid /\ ~r.threw

\* an accepted edit of a column whose handler has no modes list, the key not
\* being in flight, starts an invocation of that handler
UngatedHandlerInvoked ==
  \A i \in Rows, field \in Fields, newValue \in EditValues :
    ( /\ calls' # calls
      /\ i \in DOMAIN state.data
      /\ field \in DOMAIN handlersRef
      /\ ~handlersRef[field].hasModes
      /\ KeyOf(i, field) \notin processingRef
      /\ newValue # state.data[i][field]
      /\ EditAccepted(i, field, newValue)
      /\ (onCellValueChanged(i, field, newValue)
            \/ simplifiedOnCellValueChanged(i, field, newValue)) )
    => \E a \in DOMAIN tasks' \ DOMAIN tasks :
         /\ tasks'[a].columnId = field
         /\ tasks'[a].handler = handlersRef[field]

\* C8: in the enhanced and simplified hooks a handler with a modes list is
\* never invoked, by an edit or as a cascade dependent, in a mode outside the
\* list; the handler of an edited column that has no modes list is invoked in
\* whatever mode the edit is made.
C8_ModeGatedHandlers ==
  [][(hook \in {"enhanced", "simplified"}) =>
       (InvokedInListedMode' /\ UngatedHandlerInvoked)]_vars

\* a handler with a modes list runs as the dependent of a cascade
C8_GatedDependentInvoked ==
  /\ hook = "enhanced"
  /\ \E a \in DOMAIN tasks :
       /\ tasks[a].handler.hasModes
       /\ tasks[a].source # NoSource

\* C9: a step of setMode(id) leaves loading, errors and cellErrors empty and
\* currentMode = id, and changes neither the data nor the registered modes.
C9_SetModeClears ==
  [][\A modeId \in ModeIds :
       (calls' # calls /\ setMode(modeId))
       => /\ state'.loading = {}
          /\ state'.errors = EmptyMap
          /\ state'.cellErrors = EmptyMap
          /\ state'.currentMode = modeId
          /\ state'.data = state.data
          /\ state'.availableModes = state.availableModes]_vars

\* the mode was switched to readonly while a handler was in flight
C9_SwitchedWhileInFlight ==
  /\ state.currentMode = "readonly"
  /\ processingRef # {}
  /\ state.loading = {}
  /\ state.data # <<>>

\* C10: in each of the three hooks a step of setData(rows) makes rows the
\* data and leaves loading, errors and cellErrors empty.
C10_SetDataResets ==
  [][\A data \in DataSets :
       (calls' # calls /\ setData(data))
       => /\ state'.data = data
          /\ state'.loading = {}
          /\ state'.errors = EmptyMap
          /\ state'.cellErrors = EmptyMap]_vars

\* C13: no call of the hook's operations throws to its caller: what a parser,
\* a validator or a handler throws is turned into cell or record error state.
C13_NothingThrown == ~uncaught

\* C16: an edit that names a record the store does not hold is a no-op: no
\* handler is invoked and data, loading, errors and cellErrors are as before.
C16_RemovedRowEditIsNoOp ==
  [][\A i \in Rows, field \in Fields, newValue \in EditValues :
       ( /\ hook = "enhanced"
         /\ calls' # calls
         /\ state.data = <<>>
         /\ onCellValueChangedForRemovedRow(i, field, newValue) )
       => /\ state' = state
          /\ tasks' = tasks
          /\ processingRef' = processingRef]_vars

\* a task created by this step
NewTasks == DOMAIN tasks' \ DOMAIN tasks

\* C11: two columns that declare each other as dependency do not loop.  When
\* the invocation started by an edit resolves with a value for its dependency
\* (active when the invocation started and still registered and active, not in
\* flight, record in the store), the dependency's handler is invoked once, with the edited column as source; and no
\* invocation that settles ever starts an invocation of the column that
\* caused it.
C11_CascadeNeverReturnsToSource ==
  [][(hook = "enhanced") =>
       /\ \A id \in DOMAIN tasks :
            \A x \in NewTasks :
              tasks'[x].parent = id => tasks'[x].columnId # tasks[id].source
       /\ \A id \in DOMAIN tasks, dep \in Fields :
            ( /\ calls' = calls
              /\ tasks[id].phase = "handler"
              /\ tasks[id].source = NoSource
              /\ dep \in tasks[id].active
              /\ dep \in DOMAIN ActiveHandlers(state.currentMode)
              /\ TemplateKey(tasks[id].rowId, dep) \notin processingRef
              /\ FindRow(state.data, tasks[id].rowId) # 0
              /\ handlerResolves(id, [k \in {dep} |-> Num(40)]) )
            => /\ Cardinality(NewTasks) = 1
               /\ \A x \in NewTasks :
                    /\ tasks'[x].columnId = dep
                    /\ tasks'[x].source = tasks[id].columnId
                    /\ tasks'[x].parent = id
                    /\ tasks'[x].newValue = Num(40)]_vars

\* price and total depend on each other; the edit of price has resolved and
\* the total handler it triggered is running with price as its source
C11_DependentRunsWithSource ==
  /\ hook = "enhanced"
  /\ \E a, b \in DOMAIN tasks :
       /\ tasks[a].columnId = "price"
       /\ tasks[a].source = NoSource
       /\ tasks[a].phase = "children"
       /\ tasks[b].parent = a
       /\ tasks[b].columnId = "total"
       /\ tasks[b].source = "price"
       /\ tasks[b].phase = "handler"
       /\ tasks[b].handler.dependencies = <<"price">>

\* the invocations that await task x, directly or through others (at most n)
RECURSIVE Ancestors(_, _, _)
Ancestors(tsk, x, n) ==
  LET p == tsk[x].parent
  IN  IF n = 0 \/ p \notin DOMAIN tsk THEN {}
      ELSE {p} \cup Ancestors(tsk, p, n - 1)

\* C12: a cascade round a cycle of three columns ends.  An invocation that a
\* cascade started is awaited by the invocation that started it, which keeps
\* its processing key until its dependents are done; and no invocation is
\* started for a column that one of the awaiting invocations is for.  So a
\* chain of invocations visits each column at most once.
C12_CascadeVisitsAColumnOnce ==
  /\ [](\A x \in DOMAIN tasks :
          tasks[x].source # NoSource =>
            /\ tasks[x].parent \in DOMAIN tasks
            /\ tasks[tasks[x].parent].phase = "children"
            /\ tasks[tasks[x].parent].columnId = tasks[x].source
            /\ tasks[tasks[x].parent].rowId = tasks[x].rowId
            /\ TemplateKey(tasks[x].rowId, tasks[x].source) \in processingRef)
  /\ [][\A x \in NewTasks :
          \A a \in Ancestors(tasks', x, MaxTasks) :
            tasks'[a].columnId # tasks'[x].columnId]_vars

\* the edit of price went round the cycle: the tax handler has put its value
\* for price into the record and every invocation has finished
C12_CycleCompleted ==
  /\ tasks = NoTasks
  /\ processingRef = {}
  /\ {"price", "total", "tax"} \subseteq DOMAIN handlersRef
  /\ \E i \in DOMAIN state.data :
       /\ Get(state.data[i], "tax") = Num(40)
       /\ state.data[i]["total"] = Num(40)
       /\ state.data[i]["price"] = Num(40)

\* C12 as stated: when the third invocation of the cycle resolves with a value
\* for the first column, that column's handler (registered and active) is
\* invoked again
C12_ThirdCompletionInvokesFirstAgain ==
  [][\A id \in DOMAIN tasks :
       ( /\ tasks[id].phase = "handler"
         /\ tasks[id].columnId = "tax"
         /\ tasks[id].source = "total"
         /\ "price" \in tasks[id].active
         /\ "price" \in DOMAIN ActiveHandlers(state.currentMode)
         /\ handlerResolves(id, [k \in {"price"} |-> Num(40)]) )
       => \E x \in NewTasks : tasks'[x].columnId = "price"]_vars

\* C14: an edit whose new value is the value the cell holds changes nothing:
\* data, loading set, record errors, cell errors (an error of that very cell
\* included), modes, the invocations in flight and the processing keys are as
\* before, and no validator has run (none has thrown).
C14_IdentityEditChangesNothing ==
  [][\A i \in Rows, field \in Fields, newValue \in EditValues :
       ( /\ hook = "enhanced"
         /\ calls' # calls
         /\ i \in DOMAIN state.data
         /\ newValue = state.data[i][field]
         /\ onCellValueChanged(i, field, newValue) )
       => /\ state' = state
          /\ tasks' = tasks
          /\ processingRef' = processingRef
          /\ uncaught' = uncaught]_vars

\* a cell that holds 10 and shows an error was edited to 10: the error is
\* still there after the last call
C14_ErrorKeptByIdentityEdit ==
  /\ hook = "enhanced"
  /\ calls = 0
  /\ "price" \in DOMAIN columnConfigsRef
  /\ tasks = NoTasks
  /\ \E i \in DOMAIN state.data :
       /\ state.data[i]["price"] = Num(10)
       /\ KeyOf(i, "price") \in DOMAIN state.cellErrors

\* validationResult.parsedValue !== undefined ? validationResult.parsedValue : newValue
FinalValue(i, field, newValue) ==
  LET r == parseAndValidate(field, newValue, state.data[i], state.currentMode)
  IN  IF r.parsedValue.t # "undefined" THEN r.parsedValue ELSE newValue

\* C15: a valid edit to a cell whose handler invocation is still in flight
\* is committed to the field, and its handler request is dropped: the edit
\* starts no invocation and leaves the one in flight and the processing keys
\* as they are.  It is not queued either: an invocation that a settling
\* handler starts is always a cascade (it has a source column), never the
\* handler of an edit.
C15_EditWhileInFlightIsDropped ==
  [][/\ (hook = "enhanced" /\ processingRef # {} /\ calls' # calls) =>
          \A i \in Rows, field \in Fields, newValue \in EditValues :
            ( /\ i \in DOMAIN state.data
              /\ KeyOf(i, field) \in processingRef
              /\ newValue # state.data[i][field]
              /\ EditAccepted(i, field, newValue)
              /\ onCellValueChanged(i, field, newValue) )
            => /\ tasks' = tasks
               /\ processingRef' = processingRef
               /\ state'.loading = state.loading
               /\ state'.data[i][field] = FinalValue(i, field, newValue)
     /\ (hook = "enhanced" /\ calls' = calls) =>
          \A x \in NewTasks : tasks'[x].source # NoSource]_vars

\* the price cell was edited to "20" and then, the handler still pending, to
\* "abc": the store holds "abc", the only invocation is the one for "20"
C15_SecondValueCommittedNotProcessed ==
  /\ hook = "enhanced"
  /\ Cardinality(DOMAIN tasks) = 1
  /\ \E a \in DOMAIN tasks, i \in DOMAIN state.data :
       /\ tasks[a].rowId = state.data[i]["id"]
       /\ tasks[a].columnId = "price"
       /\ tasks[a].source = NoSource
       /\ tasks[a].phase = "handler"
       /\ tasks[a].newValue = Str("20")
       /\ state.data[i]["price"] = Str("abc")

\* the entries of a mode list other than those of id
OtherModes(modes, id) == SelectSeq(modes, LAMBDA mode : mode.id # id)

\* C17: the registered-mode list never holds two entries of one id; the call
\* registerMode(m) leaves exactly one entry of m's id, which is m itself as
\* passed (nothing of an earlier entry of that id survives), and the entries
\* of other ids are as before, in their order.
C17_LastRegistrationReplaces ==
  [][/\ \A a, b \in DOMAIN state'.availableModes :
          state'.availableModes[a].id = state'.availableModes[b].id => a = b
     /\ \A m \in ModeCatalogue :
          (calls' # calls /\ registerMode(m))
          => /\ \E k \in DOMAIN state'.availableModes : state'.availableModes[k] = m
             /\ OtherModes(state'.availableModes, m.id) = OtherModes(state.availableModes, m.id)]_vars

\* "editing" was registered again after "readonly": the list holds the
\* read-only mode and the second configuration of "editing", alone
C17_EditingRegisteredAgain ==
  /\ calls = 0
  /\ Len(state.availableModes) = 2
  /\ state.availableModes[1].id = "readonly"
  /\ state.availableModes[2].id = "editing"
  /\ state.availableModes[2].name = "Editing Mode 2"
  /\ DOMAIN state.availableModes[2].defaultColumnProps = {"sortable"}

\* whether the definitions defs are those of mode configuration m: the columns
\* are the mode-matching ones that m lists (all of them if it lists none), and
\* m's defaults fill the properties the column does not define
\* (cellClass aside, which the enhanced hook computes)
DefsFollowMode(defs, m) ==
  /\ \A f \in DOMAIN columnConfigsRef :
       f \in DOMAIN defs <=>
         /\ IsActive(columnConfigsRef[f], m.id)
         /\ (m.columns = <<>> \/ f \in Range(m.columns))
  /\ \A f \in DOMAIN defs, p \in DOMAIN m.defaultColumnProps :
       ( /\ p # "cellClass"
         /\ p \notin DOMAIN ConfigProps(columnConfigsRef[f])
         /\ p \notin DOMAIN ModeOverrides(columnConfigsRef[f], m.id) )
       => Get(defs[f], p) = m.defaultColumnProps[p]

\* C18: in the enhanced and simplified hooks setMode with an id that no
\* registered mode has makes that id the current mode and throws nothing; and
\* when a configuration is registered for the id that is already current,
\* the id stays current and the column definitions follow the new
\* configuration.
C18_ModeMayBeSetBeforeRegistered ==
  [][(hook # "basic" /\ calls' # calls) =>
       /\ \A modeId \in ModeIds :
            ( /\ FindMode(state.availableModes, modeId) = <<>>
              /\ setMode(modeId) )
            => /\ state'.currentMode = modeId
               /\ state'.availableModes = state.availableModes
               /\ uncaught' = uncaught
       /\ \A m \in ModeCatalogue :
            ( /\ state.currentMode = m.id
              /\ FindMode(state.availableModes, m.id) = <<>>
              /\ registerMode(m) )
            => /\ state'.currentMode = m.id
               /\ DefsFollowMode(getColumnDefsForMode', m)]_vars

\* "readonly" was made current and its configuration registered: of the two
\* columns only price, which it lists, is shown, not editable by its default
C18_RegisteredAfterSet ==
  /\ hook # "basic"
  /\ calls = 0
  /\ state.currentMode = "readonly"
  /\ Len(state.availableModes) = 1
  /\ state.availableModes[1].id = "readonly"
  /\ DOMAIN columnConfigsRef = {"price"}
  /\ DOMAIN getColumnDefsForMode = {"price"}
  /\ Get(getColumnDefsForMode["price"], "editable") = Bool(FALSE)

\* the column list the registered configuration of the current mode declares,
\* empty if none is registered
DeclaredColumns ==
  IF \E k \in DOMAIN state.availableModes : state.availableModes[k].id = state.currentMode
    THEN state.availableModes[CHOOSE k \in DOMAIN state.availableModes :
                                state.availableModes[k].id = state.currentMode].columns
    ELSE <<>>

\* the default column properties of that configuration, none if none is registered
DeclaredDefaults ==
  IF \E k \in DOMAIN state.availableModes : state.availableModes[k].id = state.currentMode
    THEN state.availableModes[CHOOSE k \in DOMAIN state.availableModes :
                                state.availableModes[k].id = state.currentMode].defaultColumnProps
    ELSE EmptyMap

\* C19: in the enhanced and simplified hooks the column definitions hold a
\* registered column exactly if its own modes list is absent or contains the
\* current mode, and the current mode's declared column list is empty (as it
\* is for an unregistered mode) or contains the column's field.
C19_ShownIffModeMatchAndListed ==
  (hook # "basic") =>
    /\ DOMAIN getColumnDefsForMode \subseteq DOMAIN columnConfigsRef
    /\ \A f \in DOMAIN columnConfigsRef :
         f \in DOMAIN getColumnDefsForMode <=>
           /\ ~columnConfigsRef[f].hasModes \/ state.currentMode \in columnConfigsRef[f].modes
           /\ DeclaredColumns = <<>> \/ f \in Range(DeclaredColumns)

\* the current mode "editing" lists price only: total, whose own modes list
\* has "editing", is registered and not shown
C19_UnlistedColumnHidden ==
  /\ hook # "basic"
  /\ state.currentMode = "editing"
  /\ DeclaredColumns = <<"price">>
  /\ DOMAIN columnConfigsRef = {"price", "total"}
  /\ DOMAIN getColumnDefsForMode = {"price"}

\* C19 as stated: a registered column is shown exactly if its modes list is
\* absent or contains the current mode and its field is in the current mode's
\* declared column list, the list of an unregistered mode being empty
C19_ShownIffInDeclaredList ==
  (hook # "basic") =>
    \A f \in DOMAIN columnConfigsRef :
      f \in DOMAIN getColumnDefsForMode <=>
        /\ ~columnConfigsRef[f].hasModes \/ state.currentMode \in columnConfigsRef[f].modes
        /\ f \in Range(DeclaredColumns)

\* the value the three tiers give property p of column f: the override of the
\* current mode, else the column's own value, else the mode's default
ThreeTierValue(f, p) ==
  IF p \in DOMAIN ModeOverrides(columnConfigsRef[f], state.currentMode)
    THEN ModeOverrides(columnConfigsRef[f], state.currentMode)[p]
  ELSE IF p \in DOMAIN ConfigProps(columnConfigsRef[f])
    THEN ConfigProps(columnConfigsRef[f])[p]
  ELSE Get(DeclaredDefaults, p)

\* C20: in the enhanced and simplified hooks every property that an override,
\* the column or the mode's defaults define has, in the derived column
\* definition, the value of the highest tier that defines it
C20_ThreeTierPrecedence ==
  (hook # "basic") =>
    \A f \in DOMAIN getColumnDefsForMode :
      \A p \in DOMAIN ModeOverrides(columnConfigsRef[f], state.currentMode)
               \cup DOMAIN ConfigProps(columnConfigsRef[f])
               \cup DOMAIN DeclaredDefaults :
        Get(getColumnDefsForMode[f], p) = ThreeTierValue(f, p)

\* the record ids of the store, in order
Ids(data) == [i \in DOMAIN data |-> data[i]["id"]]

\* C21: record ids are immutable and unique: a step that is not a bulk load
\* (an edit, a handler completion with whatever partial update, or any other
\* call) leaves the sequence of record ids of the store as it was.
C21_RecordIdsKeptBetweenLoads ==
  [][(~\E data \in DataSets : setData(data)) => Ids(state'.data) = Ids(state.data)]_vars

\* the step registers and unregisters nothing and leaves the modes alone, as
\* every cell edit does
RegistrationsKept ==
  /\ handlersRef' = handlersRef
  /\ parsersRef' = parsersRef
  /\ validatorsRef' = validatorsRef
  /\ columnConfigsRef' = columnConfigsRef
  /\ state'.currentMode = state.currentMode
  /\ state'.availableModes = state.availableModes

\* C22: after an edit that changes a cell's value, the cell has an error
\* exactly if the edit was rejected by parsing or validation, and then the
\* error is the message of that rejection; an error the cell had before is
\* gone after an edit that passes.  The errors of other cells are untouched.
C22_CellErrorIffLastEditRejected ==
  [][(hook = "enhanced" /\ calls' # calls /\ RegistrationsKept) =>
       \A i \in EditedRows, field \in Fields, newValue \in EditValues :
         ( /\ i \in DOMAIN state.data
           /\ newValue # state.data[i][field]
           /\ i \in DOMAIN state'.data
           /\ \A other \in Fields \ {field} :
                state'.data[i][other] = state.data[i][other]
           /\ onCellValueChanged(i, field, newValue) )
         => /\ KeyOf(i, field) \in DOMAIN state'.cellErrors
                 <=> ~parseAndValidate(field, newValue, state.data[i],
                                       state.currentMode).isValid
            /\ KeyOf(i, field) \in DOMAIN state'.cellErrors
                 => state'.cellErrors[KeyOf(i, field)] =
                      parseAndValidate(field, newValue, state.data[i],
                                       state.currentMode).error.msg
            /\ \A k \in (DOMAIN state.cellErrors \cup DOMAIN state'.cellErrors)
                           \ {KeyOf(i, field)} :
                 /\ k \in DOMAIN state.cellErrors
                 /\ k \in DOMAIN state'.cellErrors
                 /\ state'.cellErrors[k] = state.cellErrors[k]]_vars

\* the price cell, edited to "-5" and then to "20", holds 20 and no error
C22_ErrorGoneAfterPassingEdit ==
  /\ hook = "enhanced"
  /\ calls = 0
  /\ state.currentMode = "default"
  /\ DOMAIN columnConfigsRef = {"price"}
  /\ handlersRef = EmptyMap
  /\ state.cellErrors = EmptyMap
  /\ \E i \in DOMAIN state.data : state.data[i]["price"] = Num(20)

\* the step is the successful completion of a handler invocation for record r
CompletesFor(r) ==
  \E id \in DOMAIN tasks, field \in Fields, filled \in BOOLEAN :
    /\ tasks[id].rowId = r
    /\ \/ handlerResolves(id, IF filled THEN [k \in {field} |-> Num(40)] ELSE EmptyMap)
       \/ simplifiedHandlerResolves(id, IF filled THEN [k \in {field} |-> Num(40)]
                                                ELSE EmptyMap)

\* C23: a record's error stays in the error map until a handler invocation
\* for that record completes successfully, the mode is switched or the data
\* is loaded: in the enhanced and simplified hooks no other step (starting
\* another invocation for the record among them) removes it.
C23_RecordErrorKeptUntilSuccess ==
  [][\A r \in DOMAIN state.errors :
       (hook # "basic" /\ r \notin DOMAIN state'.errors)
       => \/ \E modeId \in ModeIds : setMode(modeId)
          \/ \E data \in DataSets : setData(data)
          \/ CompletesFor(r)]_vars

(***************************************************************************)
(* C24.                                                                    *)
(***************************************************************************)
\* the modes the role is granted: its row of the table, 'readonly' alone for
\* a role the table does not have
Permitted(userRole) ==
  IF userRole \in DOMAIN allowedModes THEN Range(allowedModes[userRole])
  ELSE {"readonly"}

\* C24: whenever the useModePermissions effect has run for a role and at
\* least one registered mode is allowed for that role, the current mode is
\* one of the role's allowed modes; a role the table does not have is
\* allowed 'readonly' only.
C24_EffectLeavesAnAllowedMode ==
  [][\A userRole \in Roles :
       ( /\ useModePermissions(userRole)
         /\ \E k \in DOMAIN state.availableModes :
              state.availableModes[k].id \in Permitted(userRole) )
       => state'.currentMode \in Permitted(userRole)]_vars

(***************************************************************************)
(* C25.                                                                    *)
(***************************************************************************)
\* the invocations that task p started as its dependents and that have not
\* settled
Dependents(tsk, p) == {x \in DOMAIN tsk : tsk[x].parent = p}

\* C25: an invocation awaits every dependent it triggered.  The processing
\* key of an invocation stays in flight as long as the key of any invocation
\* it triggered, directly or through its dependents, is in flight; and the
\* dependents triggered by one completed handler are all started in the step
\* in which that handler completes, before any of them settles.
C25_CascadeAwaitsItsDependents ==
  /\ [](\A x \in DOMAIN tasks :
          /\ TemplateKey(tasks[x].rowId, tasks[x].columnId) \in processingRef
          /\ tasks[x].phase = "children" => Dependents(tasks, x) # {}
          /\ tasks[x].parent # 0 =>
               /\ Ancestors(tasks, x, MaxTasks) # {}
               /\ \A a \in Ancestors(tasks, x, MaxTasks) :
                    /\ tasks[a].phase = "children"
                    /\ TemplateKey(tasks[a].rowId, tasks[a].columnId) \in processingRef)
  /\ [][\A x \in NewTasks :
          LET p == tasks'[x].parent
          IN  p # 0 =>
                /\ p \in DOMAIN tasks
                /\ tasks[p].phase = "handler"
                /\ \A y \in Dependents(tasks', p) :
                     y \in NewTasks /\ tasks'[y].phase = "handler"]_vars

\* the price handler has merged its update and waits for the tax invocation
\* alone: the total invocation it started with it has settled
C25_WaitingForTheLastDependent ==
  \E p \in DOMAIN tasks :
    /\ tasks[p].columnId = "price"
    /\ tasks[p].phase = "children"
    /\ tasks[p].handler.dependencies = <<"total", "tax">>
    /\ "total" \in DOMAIN handlersRef
    /\ \E i \in DOMAIN state.data :
         /\ state.data[i]["id"] = tasks[p].rowId
         /\ Get(state.data[i], "total") = Num(40)
         /\ Get(state.data[i], "tax") = Num(40)
    /\ \E x \in DOMAIN tasks :
         /\ Dependents(tasks, p) = {x}
         /\ tasks[x].columnId = "tax"
    /\ TemplateKey(tasks[p].rowId, "total") \notin processingRef

(***************************************************************************)
(* C26.                                                                    *)
(***************************************************************************)
\* the partial updates a handler of the catalogue may resolve with
EngineUpdates == UNION {HandlerUpdates(h) : h \in HandlerCatalogue}

\* what the completed invocation t checks before it calls processAsyncUpdate
\* for column dep with the update's value
Requested(t, dep, updates) ==
  /\ dep \in Range(t.handler.dependencies)
  /\ dep # t.source
  /\ Get(updates, dep).t # "undefined"
  /\ dep \in t.active

\* what that call checks before it invokes the handler
Admitted(t, dep) ==
  /\ TemplateKey(t.rowId, dep) \notin processingRef
  /\ dep \in DOMAIN ActiveHandlers(state.currentMode)
  /\ FindRow(state.data, t.rowId) # 0

\* task x of the next state is an invocation for column dep that the
\* completion of task id started
StartedBy(id, x, dep, updates) ==
  /\ tasks'[x].columnId = dep
  /\ tasks'[x].rowId = tasks[id].rowId
  /\ tasks'[x].parent = id
  /\ tasks'[x].source = tasks[id].columnId
  /\ tasks'[x].newValue = Get(updates, dep)

\* the step ends the await of task id
Settles(id) ==
  /\ tasks[id].phase = "handler"
  /\ id \in DOMAIN tasks' => tasks'[id].phase = "children"

\* the step leaves the values of updates in the record of task id
Merged(id, updates) ==
  LET found == FindRow(state.data, tasks[id].rowId)
  IN  /\ updates \in HandlerUpdates(tasks[id].handler)
      /\ (found # 0 /\ found \in DOMAIN state'.data) =>
            \A k \in DOMAIN state'.data[found] :
              state'.data[found][k] = IF k \in DOMAIN updates THEN updates[k]
                                      ELSE state.data[found][k]

\* C26: when the handler for column C of record R (triggered by source S)
\* succeeds with update U, the handler of column D is invoked for R, with
\* value U[D] and source C, if and only if D is a declared dependency of C's
\* handler, D differs from S, U has a value for D, a handler for D was active
\* when C's invocation started and is active in the mode current at C's
\* completion, no invocation for (R, D) is in flight and R is in the store.
\* Nothing else is started, and a skipped dependency records no error and
\* throws nothing.
C26_DependentInvokedIffRequestedAndAdmitted ==
  [][(hook = "enhanced" /\ calls' = calls) =>
       \A id \in DOMAIN tasks, updates \in EngineUpdates :
         (Settles(id) /\ Merged(id, updates) /\ handlerResolves(id, updates)) =>
           /\ \A dep \in Fields :
                (\E x \in NewTasks : tasks'[x].columnId = dep)
                <=> (Requested(tasks[id], dep, updates) /\ Admitted(tasks[id], dep))
           /\ \A x \in NewTasks : StartedBy(id, x, tasks'[x].columnId, updates)
           /\ DOMAIN state'.errors \subseteq DOMAIN state.errors
           /\ uncaught' = uncaught]_vars

\* the price handler declared total, resolved with a value for it, and no
\* handler was ever registered for total: the value is merged, nothing runs,
\* no error is recorded
C26_DependencyWithoutHandlerSkipped ==
  /\ hook = "enhanced"
  /\ DOMAIN handlersRef = {"price"}
  /\ handlersRef["price"].dependencies = <<"total">>
  /\ tasks = NoTasks
  /\ processingRef = {}
  /\ state.errors = EmptyMap
  /\ state.loading = {}
  /\ ~uncaught
  /\ \E i \in DOMAIN state.data :
       /\ state.data[i]["price"] = Str("20")
       /\ state.data[i]["total"] = Num(40)

\* C26 as stated: the handler of D is invoked, with U[D] and source C, if and
\* only if D is a declared dependency, differs from S, has a value in U and
\* has an active handler (at the start and at the completion of C's
\* invocation alike).
C26_DependentInvokedIffDeclaredAndActive ==
  [][(hook = "enhanced" /\ calls' = calls) =>
       \A id \in DOMAIN tasks, updates \in EngineUpdates :
         (Settles(id) /\ Merged(id, updates) /\ handlerResolves(id, updates)) =>
           \A dep \in Fields :
             (\E x \in NewTasks : StartedBy(id, x, dep, updates))
             <=> ( /\ Requested(tasks[id], dep, updates)
                   /\ dep \in DOMAIN ActiveHandlers(state.currentMode) )]_vars

(***************************************************************************)
(* C27.                                                                    *)
(***************************************************************************)
\* C27: the mode read at the edit that starts a cascade decides which
\* handlers are active for every invocation of the cascade.  When the
\* invocation the edit started completes and requests a dependent whose
\* handler is active in that mode (and whose key is free and whose record is
\* in the store), the dependent's handler is invoked, whatever setMode did
\* while the handler was awaited.
C27_ModeOfTheEditDecidesDependents ==
  [][(hook = "enhanced" /\ calls' = calls) =>
       \A id \in DOMAIN tasks, updates \in EngineUpdates, dep \in Fields :
         ( /\ Settles(id)
           /\ Merged(id, updates)
           /\ tasks[id].source = NoSource
           /\ Requested(tasks[id], dep, updates)
           /\ dep \in DOMAIN handlersRef
           /\ IsActive(handlersRef[dep], tasks[id].mode)
           /\ TemplateKey(tasks[id].rowId, dep) \notin processingRef
           /\ FindRow(state.data, tasks[id].rowId) # 0
           /\ handlerResolves(id, updates) )
         => \E x \in NewTasks : StartedBy(id, x, dep, updates)]_vars

(***************************************************************************)
(* C28.                                                                    *)
(***************************************************************************)
\* C28: a handler's completion is merged into its record unconditionally
\* and in completion order: whatever the record holds when the handler
\* resolves, every field of the update replaces the record's value (last
\* writer wins per field) and every other field, and every other record,
\* keeps its value.  An invocation that completes after a later commit to
\* one of its result's fields overwrites that commit.
C28_CompletionOverwritesItsFields ==
  [][(hook = "enhanced" /\ calls' = calls) =>
       \A id \in DOMAIN tasks, updates \in EngineUpdates :
         (Settles(id) /\ handlerResolves(id, updates)) =>
           /\ DOMAIN state'.data = DOMAIN state.data
           /\ \A i \in DOMAIN state.data :
                IF state.data[i]["id"] = tasks[id].rowId
                  THEN /\ DOMAIN state'.data[i] = DOMAIN state.data[i] \cup DOMAIN updates
                       /\ \A k \in DOMAIN state'.data[i] :
                            state'.data[i][k] = IF k \in DOMAIN updates THEN updates[k]
                                                ELSE state.data[i][k]
                  ELSE state'.data[i] = state.data[i]]_vars

\* the user's edit of total is being processed (its handler was given the
\* record with total '20') and the record's total is the 40 that the older
\* price invocation resolved with afterwards
C28_StaleCompletionOverwroteAnEdit ==
  /\ hook = "enhanced"
  /\ \E x \in DOMAIN tasks :
       /\ DOMAIN tasks = {x}
       /\ tasks[x].columnId = "total"
       /\ tasks[x].source = NoSource
       /\ tasks[x].newValue = Str("20")
       /\ tasks[x].row["total"] = Str("20")
       /\ \E i \in DOMAIN state.data :
            /\ state.data[i]["id"] = tasks[x].rowId
            /\ state.data[i]["total"] = Num(40)
            /\ state.data[i]["price"] = Str("20")

(***************************************************************************)
(* C29.                                                                    *)
(***************************************************************************)
\* C29: an invocation receives the record's most recently committed values
\* at the moment it starts.  The record handed to a dependent's handler is
\* the record of the store at that moment, which holds the fields merged
\* from its parent's update.
C29_DependentReceivesCommittedRecord ==
  [][(hook = "enhanced") =>
       \A x \in NewTasks :
         tasks'[x].parent # 0 =>
           LET found == FindRow(state'.data, tasks'[x].rowId)
           IN  found # 0 => tasks'[x].row = state'.data[found]]_vars

(***************************************************************************)
(* C30.                                                                    *)
(***************************************************************************)
\* the mode was switched since invocation id started
SwitchedSince(id) == tasks[id].mode # state.currentMode

\* C30: a mode switch or a bulk load while a handler is in flight neither
\* cancels the handler nor releases its processing key; when the handler
\* settles after a switch, its update is merged into the record if the id is
\* in the store, or its failure is recorded as the record's error; and
\* until then no edit starts another invocation for the same record and
\* column.
C30_SwitchOrLoadLeavesHandlersRunning ==
  [][(hook = "enhanced") =>
       /\ (calls' # calls /\ tasks # NoTasks
             /\ \/ \E modeId \in ModeIds : setMode(modeId)
                \/ \E data \in DataSets : setData(data))
          => (tasks' = tasks /\ processingRef' = processingRef)
       /\ (calls' # calls) =>
            \A x \in NewTasks :
              TemplateKey(tasks'[x].rowId, tasks'[x].columnId) \notin processingRef
       /\ (calls' = calls) =>
            \A id \in DOMAIN tasks :
              (Settles(id) /\ SwitchedSince(id)) =>
                /\ \A updates \in EngineUpdates :
                     (Merged(id, updates) /\ handlerResolves(id, updates)) =>
                       \A i \in DOMAIN state.data :
                         state.data[i]["id"] = tasks[id].rowId =>
                           \A k \in DOMAIN updates : state'.data[i][k] = updates[k]
                /\ \A error \in Rejections :
                     handlerRejects(id, error) =>
                       tasks[id].rowId \in DOMAIN state'.errors]_vars

(***************************************************************************)
(* C31.                                                                    *)
(***************************************************************************)
\* the registered entry of the column exists and is active in the mode
CustomActive(registry, columnId, currentMode) ==
  /\ columnId \in DOMAIN registry
  /\ ~registry[columnId].hasModes \/ currentMode \in registry[columnId].modes

\* the default the column's configuration names, "" if it names none
NamedDefault(columnId, kind) ==
  IF columnId \in DOMAIN columnConfigsRef THEN columnConfigsRef[columnId][kind] ELSE ""

\* the functions of one kind that a run of parseAndValidate applied
Applied(trace, fns) == {a \in DOMAIN trace : trace[a].fn \in fns}

\* the value the resolved parser yields, and whether it fails
ResolvedParse(columnId, rawValue, rowData, currentMode) ==
  IF CustomActive(parsersRef, columnId, currentMode)
    THEN LET r == CustomParser(parsersRef[columnId].fn, rawValue, rowData)
         IN  [failed |-> r.threw, value |-> IF r.threw THEN Undefined ELSE r.value]
  ELSE IF NamedDefault(columnId, "defaultParser") \in DefaultParserNames
    THEN [failed |-> FALSE,
          value |-> DefaultParser(NamedDefault(columnId, "defaultParser"), rawValue)]
  ELSE [failed |-> FALSE, value |-> rawValue]

\* the message the resolved validator returns for a parsed value
ResolvedMessage(columnId, parsedValue, rowData, currentMode) ==
  IF CustomActive(validatorsRef, columnId, currentMode)
    THEN CustomValidator(validatorsRef[columnId].fn, parsedValue, rowData)
  ELSE IF NamedDefault(columnId, "defaultValidator") \in DefaultValidatorNames
    THEN DefaultValidator(NamedDefault(columnId, "defaultValidator"), parsedValue, rowData)
  ELSE NoMessage

\* what C31 says of one run of parseAndValidate with result r
ResolutionFollowed(r, columnId, rawValue, rowData, currentMode) ==
  LET customP == CustomActive(parsersRef, columnId, currentMode)
      customV == CustomActive(validatorsRef, columnId, currentMode)
      defaultP == NamedDefault(columnId, "defaultParser") \in DefaultParserNames
      defaultV == NamedDefault(columnId, "defaultValidator") \in DefaultValidatorNames
      parse == ResolvedParse(columnId, rawValue, rowData, currentMode)
  IN  /\ Cardinality(Applied(r.trace, {"customParser", "defaultParser"})) <= 1
      /\ Cardinality(Applied(r.trace, {"customValidator", "defaultValidator"})) <= 1
      /\ Applied(r.trace, {"customParser"}) # {} <=> customP
      /\ Applied(r.trace, {"defaultParser"}) # {} <=> (~customP /\ defaultP)
      /\ r.parseFailed = parse.failed
      /\ ~parse.failed =>
           /\ r.parsedValue = parse.value
           /\ Applied(r.trace, {"customValidator"}) # {} <=> customV
           /\ Applied(r.trace, {"defaultValidator"}) # {} <=> (~customV /\ defaultV)
           /\ r.returned = ResolvedMessage(columnId, parse.value, rowData, currentMode)

\* C31: per column, the parser (and the validator) of an edit is the
\* registered one if there is one and it is active in the current mode,
\* otherwise the default the column configuration names, otherwise identity
\* (no validation).  Never two of a kind are applied: an active registered
\* validator suppresses the named default, an inactive one falls back to it.
\* The edit commits the value of the resolved parser or shows the message of
\* the resolved validator.
C31_CustomThenNamedDefaultThenNone ==
  [][(hook = "enhanced" /\ calls' # calls /\ RegistrationsKept) =>
       \A i \in EditedRows, field \in Fields, newValue \in EditValues :
         ( /\ i \in DOMAIN state.data
           /\ newValue # state.data[i][field] )
         => LET r == parseAndValidate(field, newValue, state.data[i], state.currentMode)
                parse == ResolvedParse(field, newValue, state.data[i], state.currentMode)
                message == ResolvedMessage(field, parse.value, state.data[i],
                                           state.currentMode)
            IN  /\ ResolutionFollowed(r, field, newValue, state.data[i], state.currentMode)
                /\ ( /\ i \in DOMAIN state'.data
                     /\ \A other \in Fields \ {field} :
                          state'.data[i][other] = state.data[i][other]
                     /\ ~r.threw
                     /\ onCellValueChanged(i, field, newValue) )
                   => IF parse.failed
                        THEN /\ KeyOf(i, field) \in DOMAIN state'.cellErrors
                             /\ state'.data[i][field] = state.data[i][field]
                      ELSE IF Truthy(message)
                        THEN /\ KeyOf(i, field) \in DOMAIN state'.cellErrors
                             /\ Message(state'.cellErrors[KeyOf(i, field)]) = message
                             /\ state'.data[i][field] = state.data[i][field]
                      ELSE /\ KeyOf(i, field) \notin DOMAIN state'.cellErrors
                           /\ state'.data[i][field] = parse.value]_vars

\* the registered price validator is not active in the current mode and the
\* price cell shows the message of the named default validator
C31_InactiveCustomFellBackToDefault ==
  /\ hook = "enhanced"
  /\ "price" \in DOMAIN validatorsRef
  /\ validatorsRef["price"].fn = "examplePrice"
  /\ ~IsActive(validatorsRef["price"], state.currentMode)
  /\ "price" \in DOMAIN columnConfigsRef
  /\ "1-price" \in DOMAIN state.cellErrors
  /\ state.cellErrors["1-price"] = "Price cannot be negative"

(***************************************************************************)
(* C32.                                                                    *)
(***************************************************************************)
\* an edit of the basic hook to a loaded row whose column has a handler that
\* is active in the current mode invokes the handler for that row
BasicEditInvokesHandler ==
  (hook = "basic" /\ calls' # calls) =>
    \A i \in EditedRows, field \in Fields, newValue \in EditValues :
      ( /\ i \in DOMAIN state.data
        /\ newValue # state.data[i][field]
        /\ field \in DOMAIN handlersRef
        /\ IsActive(handlersRef[field], state.currentMode)
        /\ KeyOf(i, field) \notin processingRef
        /\ basicOnCellValueChanged(i, field, newValue) )
      => \E x \in NewTasks :
           /\ tasks'[x].rowId = state.data[i]["id"]
           /\ tasks'[x].columnId = field
           /\ tasks'[x].newValue = newValue

\* C32: in the basic hook every operation works on the hook's current
\* state: getColumnDefsForMode derives the definitions from the current mode
\* and the modes registered so far, and an edit to a loaded row with a
\* handler active in the current mode invokes the handler with that row;
\* never the mode, mode list or data of the first render.
C32_BasicHookReadsCurrentState ==
  /\ [](hook = "basic" => getColumnDefsForMode = ColumnDefsOf(state))
  /\ [][BasicEditInvokesHandler]_vars

(***************************************************************************)
(* C33.                                                                    *)
(***************************************************************************)
\* C33: in useSimplifiedGridManager no call leaves a processing key or a
\* loading flag behind: every key of the processing set, and every record
\* marked loading, belongs to a call that is still waiting for its handler,
\* also when the record id was not found in the data.
C33_SimplifiedLeavesNothingBehind ==
  hook = "simplified" =>
    /\ \A k \in processingRef :
         \E x \in DOMAIN tasks : k = TemplateKey(tasks[x].rowId, tasks[x].columnId)
    /\ \A r \in state.loading : \E x \in DOMAIN tasks : tasks[x].rowId = r

(***************************************************************************)
(* C34.                                                                    *)
(***************************************************************************)
\* C34: in the enhanced engine, whenever no handler invocation is outstanding
\* (none pending, none awaiting its dependents), the processing-key set is
\* empty and the loading set is empty.
C34_QuiescentEngineHoldsNothing ==
  (hook = "enhanced" /\ tasks = NoTasks) =>
    (processingRef = {} /\ state.loading = {})

\* an invocation has failed and nothing is outstanding any more
C34_QuietAfterAFailure ==
  /\ hook = "enhanced"
  /\ tasks = NoTasks
  /\ DOMAIN state.errors # {}
  /\ processingRef = {}
  /\ state.loading = {}

(***************************************************************************)
(* C35.                                                                    *)
(***************************************************************************)
\* the step leaves every field of the data alone except the fields named in
\* changed of the rows selected by touched, and keeps the number and the
\* order of the rows
OnlyChanges(touched, changed) ==
  /\ Len(state'.data) = Len(state.data)
  /\ \A j \in DOMAIN state.data :
       /\ DOMAIN state'.data[j] = DOMAIN state.data[j]
       /\ \A f \in DOMAIN state.data[j] :
            (j \notin touched \/ f \notin changed)
              => state'.data[j][f] = state.data[j][f]

\* C35: an edit or a cascade for record R changes only R: the commit of an
\* edit changes at most the edited field of the edited record, the merge of a
\* handler's update changes at most the fields the update names in the record
\* of the invocation; the fields of every other record, the number of records
\* and their order stay as they were.
C35_EditOrCascadeChangesOnlyItsRecord ==
  [][hook = "enhanced" =>
       /\ \A i \in Rows, field \in Fields :
            ( /\ calls' # calls
              /\ RegistrationsKept
              /\ onCellValueChanged(i, field, Str("20")) )
            => OnlyChanges({i}, {field})
       /\ \A id \in DOMAIN tasks, updates \in EngineUpdates :
            ( /\ calls' = calls
              /\ handlerResolves(id, updates) )
            => OnlyChanges({FindRow(state.data, tasks[id].rowId)}, DOMAIN updates)]_vars

(***************************************************************************)
(* C36.                                                                    *)
(***************************************************************************)
\* the step leaves the cell errors of every key outside keys as they were
CellErrorsKeptOutside(keys) ==
  \A k \in (DOMAIN state.cellErrors \cup DOMAIN state'.cellErrors) \ keys :
    /\ k \in DOMAIN state.cellErrors
    /\ k \in DOMAIN state'.cellErrors
    /\ state'.cellErrors[k] = state.cellErrors[k]

\* C36: the two error maps of the enhanced hook are independent.  An edit
\* that parsing or validation rejects changes only the cell error of its own
\* (record, column) key: data, loading set, processing keys, invocations and
\* record-level errors stay as they were.  A handler invocation never adds,
\* changes or removes a cell error: not when it settles (success or failure,
\* its dependents' starts included), and not when an accepted edit starts it
\* (that step touches the edited cell's own key only).
C36_ErrorMapsIndependent ==
  [][hook = "enhanced" =>
       /\ calls' = calls => state'.cellErrors = state.cellErrors
       /\ (calls' # calls /\ RegistrationsKept) =>
            \A i \in EditedRows, field \in Fields, newValue \in {Str("20"), Str("-5")} :
              ( /\ i \in DOMAIN state.data
                /\ newValue # state.data[i][field]
                /\ onCellValueChanged(i, field, newValue) )
              => /\ CellErrorsKeptOutside({KeyOf(i, field)})
                 /\ ~parseAndValidate(field, newValue, state.data[i],
                                      state.currentMode).isValid
                      => /\ state'.data = state.data
                         /\ state'.loading = state.loading
                         /\ state'.errors = state.errors
                         /\ processingRef' = processingRef
                         /\ tasks' = tasks]_vars

\* the price edit was rejected while the handler of total was running, and
\* the handler has failed since: both maps hold an entry for record '1'
C36_CellErrorBesideRecordError ==
  /\ hook = "enhanced"
  /\ tasks = NoTasks
  /\ DOMAIN state.cellErrors = {"1-price"}
  /\ DOMAIN state.errors = {Str("1")}

(***************************************************************************)
(* C37.                                                                    *)
(***************************************************************************)
\* if the step is an edit that changes field in row i, it interferes with no other
\* (record, column) pair: accepted (no validator threw), with an active
\* handler and no invocation of its own pair in flight, it invokes the
\* handler; and it leaves the cell errors of the other pairs alone
EditKeepsToItsPair(i, field, newValue, fields) ==
  ( /\ i \in DOMAIN state.data
    /\ newValue # state.data[i][field]
    /\ onCellValueChanged(i, field, newValue) )
  => /\ ( /\ parseAndValidate(field, newValue, state.data[i], state.currentMode).isValid
          /\ ~uncaught'
          /\ field \in DOMAIN ActiveHandlers(state.currentMode)
          /\ ~\E x \in DOMAIN tasks :
                tasks[x].rowId = state.data[i]["id"] /\ tasks[x].columnId = field )
        => \E x \in DOMAIN tasks' \ DOMAIN tasks :
             tasks'[x].rowId = state.data[i]["id"] /\ tasks'[x].columnId = field
     /\ \A j \in DOMAIN state.data, other \in fields :
          ( /\ (j # i \/ other # field)
            /\ KeyOf(j, other) \in DOMAIN state.cellErrors )
          => /\ KeyOf(j, other) \in DOMAIN state'.cellErrors
             /\ state'.cellErrors[KeyOf(j, other)] = state.cellErrors[KeyOf(j, other)]

\* C37: distinct (record id, column id) pairs never share a processing key or
\* a cell-error key, also when the ids contain '-': an invocation in flight
\* for one pair never causes an edit of a different pair to be dropped, and
\* the cell error of one pair is never cleared (or replaced) by an edit of
\* another pair.
C37_DistinctPairsNeverInterfere ==
  [][(hook = "enhanced" /\ calls' # calls /\ RegistrationsKept) =>
       \A i \in Rows, field \in SeparatorFields :
         EditKeepsToItsPair(i, field, Str("20"), SeparatorFields)]_vars

====
